---- MODULE Spec2Model ----
(***************************************************************************)
(* Command dispatch and policy enforcement of the OTT subscription         *)
(* manager: the command registry (command_registry.py), the command        *)
(* processor with its handlers (command_processor.py) and the request      *)
(* entry point (main.py), over a document store and a mail collaborator.   *)
(*                                                                         *)
(* Text values are TLA+ strings, that is sequences of characters: where    *)
(* the code looks inside a string (prefix test, substring test, lowering,  *)
(* date parsing) the model computes on the characters.                     *)
(***************************************************************************)
EXTENDS Integers, Sequences, FiniteSets, TLC

VARIABLES
  store,     \* the subscriptions collection
  users,     \* the users collection
  today,     \* datetime.now().date(), as an ordinal
  inflight,  \* add invocations between their count query and their insert
  last,      \* the last invocation
  resp       \* the CommandResponse of the last invocation

vars == <<store, users, today, inflight, last, resp>>

(***************************************************************************)
(* Bounds of the model.                                                    *)
(***************************************************************************)
\* documents the subscriptions collection may hold (core specification)
MaxSubs == 1
\* documents the collection may hold in the quota and race specifications
MaxQuotaSubs == 3
\* documents the collection may hold in the delete specification
MaxDeleteSubs == 4
\* max_subscriptions of the metered identity
SmallQuota == 2
\* lengths of the diagnostic text str(e) of a collaborator fault
ErrShort == 20
ErrLong == 150
\* argument tokens beyond a command's declared maximum that callers send
ExtraArgs == 1
\* add invocations that may be in flight at once
MaxInflight == 2

(***************************************************************************)
(* Program constants.                                                      *)
(***************************************************************************)
\* the quota value that means "unlimited"
Unlimited == 999999
\* characters of a fault's text kept by str(e)[:100]
DiagLimit == 100
\* characters of a document id shown in messages, sub.id[:8]
IdShown == 8
\* candidate subscriptions listed by a failed delete, all_subs[:3]
HintCount == 3
\* the free plan's max_subscriptions
FreePlanQuota == 5

(***************************************************************************)
(* Text.                                                                   *)
(***************************************************************************)
\* s[i-1], as a one-character string
CharAt(s, i) == SubSeq(s, i, i)

\* s[:n]
Take(s, n) == IF Len(s) <= n THEN s ELSE SubSeq(s, 1, n)

\* s.startswith(p)
StartsWith(s, p) == Len(p) <= Len(s) /\ SubSeq(s, 1, Len(p)) = p

\* c in s, for a character c
HasChar(s, c) == \E i \in 1..Len(s) : CharAt(s, i) = c

\* p in s, for a string p (substring test)
Contains(s, p) ==
  \E i \in 0..(Len(s) - Len(p)) : SubSeq(s, i + 1, i + Len(p)) = p

\* the letters str.lower() changes
LowerOf ==
  ("A" :> "a") @@ ("B" :> "b") @@ ("C" :> "c") @@ ("D" :> "d") @@ ("E" :> "e")
  @@ ("F" :> "f") @@ ("G" :> "g") @@ ("H" :> "h") @@ ("I" :> "i") @@ ("J" :> "j")
  @@ ("K" :> "k") @@ ("L" :> "l") @@ ("M" :> "m") @@ ("N" :> "n") @@ ("O" :> "o")
  @@ ("P" :> "p") @@ ("Q" :> "q") @@ ("R" :> "r") @@ ("S" :> "s") @@ ("T" :> "t")
  @@ ("U" :> "u") @@ ("V" :> "v") @@ ("W" :> "w") @@ ("X" :> "x") @@ ("Y" :> "y")
  @@ ("Z" :> "z")

LowerChar(c) == IF c \in DOMAIN LowerOf THEN LowerOf[c] ELSE c

RECURSIVE Lower(_)
\* str.lower()
Lower(s) == IF s = "" THEN "" ELSE LowerChar(Head(s)) \o Lower(Tail(s))

RECURSIVE Join(_)
\* ' '.join(tokens)
Join(tokens) ==
  IF tokens = <<>> THEN ""
  ELSE IF Len(tokens) = 1 THEN tokens[1]
  ELSE tokens[1] \o " " \o Join(Tail(tokens))

(***************************************************************************)
(* Dates: datetime.strptime(s, '%Y-%m-%d').date() and date subtraction.    *)
(***************************************************************************)
Digits == {"0", "1", "2", "3", "4", "5", "6", "7", "8", "9"}

DigitVal(c) ==
  CASE c = "0" -> 0 [] c = "1" -> 1 [] c = "2" -> 2 [] c = "3" -> 3
    [] c = "4" -> 4 [] c = "5" -> 5 [] c = "6" -> 6 [] c = "7" -> 7
    [] c = "8" -> 8 [] c = "9" -> 9

IsLeap(y) == (y % 4 = 0 /\ y % 100 # 0) \/ y % 400 = 0

DaysInMonth(y, m) ==
  IF m = 2 THEN (IF IsLeap(y) THEN 29 ELSE 28)
  ELSE IF m \in {4, 6, 9, 11} THEN 30 ELSE 31

RECURSIVE DaysBeforeMonth(_, _)
DaysBeforeMonth(y, m) ==
  IF m <= 1 THEN 0 ELSE DaysBeforeMonth(y, m - 1) + DaysInMonth(y, m - 1)

\* date.toordinal()
Ordinal(y, m, d) ==
  365 * (y - 1) + ((y - 1) \div 4) - ((y - 1) \div 100) + ((y - 1) \div 400)
    + DaysBeforeMonth(y, m) + d

RECURSIVE NumberOf(_)
\* the value of a digit string
NumberOf(cs) ==
  IF cs = "" THEN 0
  ELSE 10 * NumberOf(SubSeq(cs, 1, Len(cs) - 1)) + DigitVal(CharAt(cs, Len(cs)))

\* the text has the zero-padded form YYYY-MM-DD
Shaped(s) ==
  /\ Len(s) = 10
  /\ CharAt(s, 5) = "-" /\ CharAt(s, 8) = "-"
  /\ \A i \in {1, 2, 3, 4, 6, 7, 9, 10} : CharAt(s, i) \in Digits

\* date(y, m, d); ok = FALSE stands for ValueError
DateOf(y, m, d) ==
  IF y >= 1 /\ m \in 1..12 /\ d >= 1 /\ d <= DaysInMonth(y, m)
  THEN [ok |-> TRUE, ord |-> Ordinal(y, m, d)]
  ELSE [ok |-> FALSE, ord |-> 0]

\* datetime.strptime(s, '%Y-%m-%d').date().  The texts in use are either of
\* the zero-padded form or of a shape strptime rejects.
ParseDate(s) ==
  IF Shaped(s)
  THEN DateOf(NumberOf(SubSeq(s, 1, 4)), NumberOf(SubSeq(s, 6, 7)), NumberOf(SubSeq(s, 9, 10)))
  ELSE [ok |-> FALSE, ord |-> 0]

\* the day the model starts on: 2025-01-10
Day0 == Ordinal(2025, 1, 10)

(***************************************************************************)
(* Command registry (command_registry.py).                                 *)
(***************************************************************************)
Roles == {"free", "user", "manager", "admin", "owner"}

AllRoles == <<"free", "user", "manager", "admin", "owner">>
PaidRoles == <<"user", "manager", "admin", "owner">>
AdminRoles == <<"admin", "owner">>

\* args: the declared argument names in order, opt[i] = the name ends with '?'
CommandDef(name, args, opt, permissions) ==
  [name |-> name, args |-> args, opt |-> opt, permissions |-> permissions]

COMMANDS ==
  [ n \in {"start", "list", "add", "delete", "search", "sendreminder", "upgrade",
           "stats", "help", "forcedreminder", "promote"} |->
      CASE n = "start"  -> CommandDef(n, <<>>, <<>>, AllRoles)
        [] n = "list"   -> CommandDef(n, <<>>, <<>>, AllRoles)
        [] n = "add"    -> CommandDef(n, <<"username", "email", "service", "expiry", "amount">>,
                                      <<FALSE, FALSE, FALSE, FALSE, TRUE>>, AllRoles)
        [] n = "delete" -> CommandDef(n, <<"subscription_id">>, <<FALSE>>, AllRoles)
        [] n = "search" -> CommandDef(n, <<"keyword">>, <<FALSE>>, AllRoles)
        [] n = "sendreminder" -> CommandDef(n, <<>>, <<>>, PaidRoles)
        [] n = "upgrade" -> CommandDef(n, <<"plan_type">>, <<TRUE>>, AllRoles)
        [] n = "stats"  -> CommandDef(n, <<>>, <<>>, PaidRoles)
        [] n = "help"   -> CommandDef(n, <<"command">>, <<TRUE>>, AllRoles)
        [] n = "forcedreminder" -> CommandDef(n, <<>>, <<>>, AdminRoles)
        [] n = "promote" -> CommandDef(n, <<"user_id", "role">>, <<FALSE, FALSE>>, AdminRoles) ]

Registered(name) == Lower(name) \in DOMAIN COMMANDS

\* COMMANDS.get(name.lower()); used where Registered(name)
get_command(name) == COMMANDS[Lower(name)]

Range(s) == {s[i] : i \in 1..Len(s)}

\* variant: every command is available to every role
get_commands_for_any_role(role) == DOMAIN COMMANDS

get_commands_for_role(role) ==
  {n \in DOMAIN COMMANDS : role \in Range(COMMANDS[n].permissions)}

RequiredCount(cmd) == Cardinality({i \in 1..Len(cmd.args) : ~cmd.opt[i]})
OptionalCount(cmd) == Cardinality({i \in 1..Len(cmd.args) : cmd.opt[i]})

\* variant: a command that declares no argument rejects surplus tokens too
validate_command_args_strict(command_name, args) ==
  IF ~Registered(command_name) THEN "Unknown command"
  ELSE LET cmd == get_command(command_name)
           max_args == RequiredCount(cmd) + OptionalCount(cmd)
       IN IF Len(args) < RequiredCount(cmd) THEN "Missing required arguments"
          ELSE IF Len(args) > max_args THEN "Too many arguments"
          ELSE "Valid"

\* validate_command_args: "Valid", or the kind of its diagnostic
validate_command_args(command_name, args) ==
  IF ~Registered(command_name) THEN "Unknown command"
  ELSE LET cmd == get_command(command_name)
           max_args == RequiredCount(cmd) + OptionalCount(cmd)
       IN IF Len(args) < RequiredCount(cmd) THEN "Missing required arguments"
          ELSE IF Len(args) > max_args /\ max_args > 0 THEN "Too many arguments"
          ELSE "Valid"

(***************************************************************************)
(* Plans (main.py SUBSCRIPTION_PLANS): plan key -> max_subscriptions.      *)
(***************************************************************************)
SUBSCRIPTION_PLANS ==
  [ k \in {"free", "basic", "premium", "enterprise", "monthly_unlimited",
           "yearly_unlimited"} |->
      CASE k = "free"       -> [name |-> "Free Plan", max_subscriptions |-> FreePlanQuota]
        [] k = "basic"      -> [name |-> "Basic Plan", max_subscriptions |-> 15]
        [] k = "premium"    -> [name |-> "Premium Plan", max_subscriptions |-> 30]
        [] k = "enterprise" -> [name |-> "Enterprise Plan", max_subscriptions |-> 100]
        [] k = "monthly_unlimited" ->
             [name |-> "Monthly Unlimited", max_subscriptions |-> Unlimited]
        [] k = "yearly_unlimited" ->
             [name |-> "Yearly Unlimited", max_subscriptions |-> Unlimited] ]

(***************************************************************************)
(* The document store: a sequence of documents in iteration order.         *)
(* A subscription document carries its id and the fields add writes.       *)
(***************************************************************************)
Sub(id, chat, username, email, service, expiry, amount) ==
  [id |-> id, chat |-> chat, username |-> username, email |-> email,
   service |-> service, expiry |-> expiry, amount |-> amount]

\* variant: the query is not restricted to the caller's chat id
WhereAny(db, chat) == db

RECURSIVE Where(_, _)
\* the documents of db whose telegram_chat_id is chat, in iteration order:
\* db.collection('subscriptions').where('telegram_chat_id', '==', chat).stream()
Where(db, chat) ==
  IF db = <<>> THEN <<>>
  ELSE IF Head(db).chat = chat THEN <<Head(db)>> \o Where(Tail(db), chat)
  ELSE Where(Tail(db), chat)

\* db.collection('subscriptions').add(doc): the store places the new document
\* after the first pos documents of its iteration order
InsertAt(db, pos, doc) ==
  SubSeq(db, 1, pos) \o <<doc>> \o SubSeq(db, pos + 1, Len(db))

RECURSIVE WithoutFrom(_, _)
\* variant: the delete takes the document and all that follow it
WithoutFrom(db, id) ==
  IF db = <<>> THEN <<>>
  ELSE IF Head(db).id = id THEN <<>>
  ELSE <<Head(db)>> \o WithoutFrom(Tail(db), id)

RECURSIVE Without(_, _)
\* db.collection('subscriptions').document(id).delete()
Without(db, id) ==
  IF db = <<>> THEN <<>>
  ELSE IF Head(db).id = id THEN Without(Tail(db), id)
  ELSE <<Head(db)>> \o Without(Tail(db), id)

IdsOf(db) == {db[i].id : i \in 1..Len(db)}

(***************************************************************************)
(* CommandResponse.  kind names the message template; the other fields     *)
(* carry what the message and the data payload are built from.             *)
(*   data     the key of the payload dict, "None" when data is None        *)
(*   recs     the subscription documents of the payload                    *)
(*   status   the status shown for each listed document                    *)
(*   hints    the ids shown as candidates, as spelled in the message       *)
(*   nums     the numbers of the stats payload                             *)
(*   names    the command or plan names of the payload                     *)
(*   diag     the number of characters of a fault's text in the message    *)
(***************************************************************************)
Response(success, kind) ==
  [success |-> success, kind |-> kind, data |-> "None", recs |-> <<>>,
   status |-> <<>>, hints |-> <<>>, nums |-> <<>>, names |-> {},
   web_redirect |-> "None", diag |-> 0]

\* What a handler did: its response, the store it leaves, the collaborator
\* calls it made in order, the mails it handed to mail.send, and whether a
\* collaborator call raised.  escaped: the handler did not return, an
\* exception left it.
Outcome(r, db, calls, mails, raised) ==
  [resp |-> r, store |-> db, calls |-> calls, mails |-> mails, raised |-> raised,
   escaped |-> FALSE]

\* an exception whose text has len characters leaves the handler
Escapes(db, len) ==
  [resp |-> [Response(FALSE, "raise") EXCEPT !.diag = len], store |-> db,
   calls |-> <<>>, mails |-> <<>>, raised |-> FALSE, escaped |-> TRUE]

\* A fault f names the collaborator call that raises ("none": no call does),
\* f.len is the length of the exception's text.
Fails(f, call) == f.at = call

Min(a, b) == IF a <= b THEN a ELSE b

\* f"...{str(e)[:100]}..."
Truncated(f) == Min(f.len, DiagLimit)

\* f"...{str(e)}..."
Untruncated(f) == f.len

(***************************************************************************)
(* Status of a subscription on a day.                                      *)
(***************************************************************************)
\* variant: the boundary day days_left = threshold counts as ACTIVE
StatusForStrict(p, day, threshold) ==
  IF ~p.ok THEN "UNKNOWN"
  ELSE IF p.ord - day < 0 THEN "EXPIRED"
  ELSE IF p.ord - day < threshold THEN "EXPIRING SOON"
  ELSE "ACTIVE"

\* the status of an expiry date p (ok = FALSE: it did not parse)
StatusFor(p, day, threshold) ==
  IF ~p.ok THEN "UNKNOWN"
  ELSE IF p.ord - day < 0 THEN "EXPIRED"
  ELSE IF p.ord - day <= threshold THEN "EXPIRING SOON"
  ELSE "ACTIVE"

\* variant: every command classifies with a threshold of at most three days
StatusOfList(expiry, day, threshold) == StatusFor(ParseDate(expiry), day, Min(threshold, 3))

\* the try block of _handle_list / _handle_search, threshold 3 or 7
StatusOf(expiry, day, threshold) == StatusFor(ParseDate(expiry), day, threshold)

\* days_left <= 3 in _handle_list, <= 7 in _handle_search and _handle_stats
ListThreshold == 3
SearchThreshold == 7
StatsThreshold == 7

(***************************************************************************)
(* Handlers (command_processor.py).  Each takes the argument list, the     *)
(* caller's identity u, the store db, the day, the fault f and, for add,   *)
(* the id nid the store generates and the place pos it gives the document. *)
(***************************************************************************)
\* self.subscription_plans[user_data['plan_type']] raises KeyError, whose text
\* is the quoted key, outside any try block of the handler
handle_start(args, u, db, f) ==
  IF u.plan_type \notin DOMAIN SUBSCRIPTION_PLANS
  THEN Escapes(db, Len(u.plan_type) + 2)
  ELSE
  Outcome([Response(TRUE, "Welcome") EXCEPT
             !.data = "user_info", !.web_redirect = "/dashboard",
             !.names = {SUBSCRIPTION_PLANS[u.plan_type].name},
             !.nums = <<u.max_subscriptions>>],
          db, <<>>, <<>>, FALSE)

handle_list(args, u, db, day, f) ==
  IF Fails(f, "find")
  THEN Outcome([Response(FALSE, "Error fetching subscriptions") EXCEPT
                  !.diag = Untruncated(f)],
               db, <<"find">>, <<>>, TRUE)
  ELSE LET subscriptions == Where(db, u.chat)
       IN IF subscriptions = <<>>
          THEN Outcome([Response(TRUE, "No Subscriptions Found") EXCEPT
                          !.data = "subscriptions"],
                       db, <<"find">>, <<>>, FALSE)
          ELSE Outcome([Response(TRUE, "Your Subscriptions") EXCEPT
                          !.data = "subscriptions",
                          !.recs = subscriptions,
                          !.status = [i \in 1..Len(subscriptions) |->
                                        StatusOf(subscriptions[i].expiry, day, ListThreshold)],
                          !.hints = <<Take(subscriptions[1].id, IdShown)>>],
                       db, <<"find">>, <<>>, FALSE)

\* variant: only an email that lacks both characters is rejected
BadEmailBoth(email) == ~HasChar(email, "@") /\ ~HasChar(email, ".")

\* '@' not in email or '.' not in email
BadEmail(email) == ~HasChar(email, "@") \/ ~HasChar(email, ".")

\* variant: a quota check that admits one document more
OverQuotaStrict(max_subs, current_count) ==
  max_subs # Unlimited /\ current_count > max_subs

\* variant: a quota check that tests the sentinel the wrong way round
OverQuotaSentinelOnly(max_subs, current_count) ==
  max_subs = Unlimited /\ current_count >= max_subs

\* max_subs != 999999 and current_count >= max_subs
OverQuota(max_subs, current_count) ==
  max_subs # Unlimited /\ current_count >= max_subs

\* variant: an expiry equal to today counts as past
add_validate_today_past(args, day) ==
  IF Len(args) < 4 THEN Response(FALSE, "Missing required information")
  ELSE IF BadEmail(args[2]) THEN Response(FALSE, "Invalid email format")
  ELSE IF ~ParseDate(args[4]).ok THEN Response(FALSE, "Invalid date format")
  ELSE IF ParseDate(args[4]).ord <= day THEN Response(FALSE, "Expiry date is in the past")
  ELSE Response(TRUE, "ok")

\* _handle_add up to the count query: the response of the check that rejects
\* the arguments, or "ok"
add_validate(args, day) ==
  IF Len(args) < 4 THEN Response(FALSE, "Missing required information")
  ELSE IF BadEmail(args[2]) THEN Response(FALSE, "Invalid email format")
  ELSE IF ~ParseDate(args[4]).ok THEN Response(FALSE, "Invalid date format")
  ELSE IF ParseDate(args[4]).ord < day THEN Response(FALSE, "Expiry date is in the past")
  ELSE Response(TRUE, "ok")

\* _handle_add from the quota check on, given the count the query returned
add_insert(args, u, db, current_count, f, nid, pos) ==
  LET amount == IF Len(args) > 4 THEN Join(SubSeq(args, 5, Len(args))) ELSE "0"
      subscription_data == Sub(nid, u.chat, args[1], args[2], args[3], args[4], amount)
  IN IF OverQuota(u.max_subscriptions, current_count)
          /\ u.plan_type \notin DOMAIN SUBSCRIPTION_PLANS
     THEN \* KeyError in the plan lookup, caught by the handler's except clause
          Outcome([Response(FALSE, "Error adding subscription") EXCEPT
                     !.diag = Len(u.plan_type) + 2],
                  db, <<"find">>, <<>>, FALSE)
     ELSE IF OverQuota(u.max_subscriptions, current_count)
     THEN Outcome([Response(FALSE, "Subscription limit reached") EXCEPT
                     !.web_redirect = "/upgrade",
                     !.names = {SUBSCRIPTION_PLANS[u.plan_type].name},
                     !.nums = <<current_count, u.max_subscriptions>>],
                  db, <<"find">>, <<>>, FALSE)
     ELSE IF Fails(f, "add")
     THEN Outcome([Response(FALSE, "Error adding subscription") EXCEPT
                     !.diag = Untruncated(f)],
                  db, <<"find", "add">>, <<>>, TRUE)
     ELSE Outcome([Response(TRUE, "Subscription Added Successfully") EXCEPT
                     !.data = "subscription",
                     !.recs = <<subscription_data>>,
                     !.hints = <<Take(nid, IdShown)>>,
                     !.web_redirect = "/dashboard"],
                  InsertAt(db, pos, subscription_data), <<"find", "add">>, <<>>, FALSE)

handle_add(args, u, db, day, f, nid, pos) ==
  IF ~add_validate(args, day).success
  THEN Outcome(add_validate(args, day), db, <<>>, <<>>, FALSE)
  ELSE IF Fails(f, "find")
  THEN Outcome([Response(FALSE, "Error adding subscription") EXCEPT
                  !.diag = Untruncated(f)],
               db, <<"find">>, <<>>, TRUE)
  ELSE add_insert(args, u, db, Len(Where(db, u.chat)), f, nid, pos)

\* sub.id == sub_id or sub.id.startswith(sub_id)
Matches(id, sub_id) == id = sub_id \/ StartsWith(id, sub_id)

\* variant: the loop keeps the last match instead of stopping at the first
LastMatch(all_subs, sub_id) ==
  IF \E i \in 1..Len(all_subs) : Matches(all_subs[i].id, sub_id)
  THEN CHOOSE i \in 1..Len(all_subs) :
         /\ Matches(all_subs[i].id, sub_id)
         /\ \A j \in (i + 1)..Len(all_subs) : ~Matches(all_subs[j].id, sub_id)
  ELSE 0

\* the for loop of _handle_delete: index of the first match, 0 when none
FirstMatch(all_subs, sub_id) ==
  IF \E i \in 1..Len(all_subs) : Matches(all_subs[i].id, sub_id)
  THEN CHOOSE i \in 1..Len(all_subs) :
         /\ Matches(all_subs[i].id, sub_id)
         /\ \A j \in 1..(i - 1) : ~Matches(all_subs[j].id, sub_id)
  ELSE 0

\* variant: every subscription is listed
CandidatesAll(all_subs) ==
  [i \in 1..Len(all_subs) |-> Take(all_subs[i].id, IdShown)]

\* all_subs[:3], each shown as sub.id[:8]
Candidates(all_subs) ==
  [i \in 1..Min(Len(all_subs), HintCount) |-> Take(all_subs[i].id, IdShown)]

handle_delete(args, u, db, f) ==
  IF args = <<>>
  THEN Outcome(Response(FALSE, "Subscription ID required"), db, <<>>, <<>>, FALSE)
  ELSE IF Fails(f, "find")
  THEN Outcome([Response(FALSE, "Delete Error") EXCEPT !.diag = Truncated(f)],
               db, <<"find">>, <<>>, TRUE)
  ELSE
    LET sub_id == args[1]
        all_subs == Where(db, u.chat)
        t == FirstMatch(all_subs, sub_id)
    IN IF all_subs = <<>>
       THEN Outcome(Response(FALSE, "No subscriptions found"), db, <<"find">>, <<>>, FALSE)
       ELSE IF t = 0
       THEN Outcome([Response(FALSE, "Subscription not found") EXCEPT
                       !.hints = Candidates(all_subs),
                       !.nums = <<Len(all_subs)>>],
                    db, <<"find">>, <<>>, FALSE)
       ELSE IF Fails(f, "delete")
       THEN Outcome([Response(FALSE, "Delete Error") EXCEPT !.diag = Truncated(f)],
                    db, <<"find", "delete">>, <<>>, TRUE)
       ELSE Outcome([Response(TRUE, "Successfully Deleted") EXCEPT
                       !.data = "deleted_subscription",
                       !.recs = <<all_subs[t]>>,
                       !.hints = <<Take(all_subs[t].id, IdShown)>>,
                       !.web_redirect = "/dashboard"],
                    Without(db, all_subs[t].id), <<"find", "delete">>, <<>>, FALSE)

\* variant: the fields are compared as stored, without lower()
SearchHitAsStored(doc, search_query) ==
  \/ Contains(doc.username, search_query)
  \/ Contains(doc.email, search_query)
  \/ Contains(doc.service, search_query)

\* search_query in username or search_query in email or search_query in service,
\* all lowercased
SearchHit(doc, search_query) ==
  \/ Contains(Lower(doc.username), search_query)
  \/ Contains(Lower(doc.email), search_query)
  \/ Contains(Lower(doc.service), search_query)

RECURSIVE Filter(_, _)
\* the documents of subs that match query, in order
Filter(subs, query) ==
  IF subs = <<>> THEN <<>>
  ELSE IF SearchHit(Head(subs), query)
       THEN <<Head(subs)>> \o Filter(Tail(subs), query)
       ELSE Filter(Tail(subs), query)

handle_search(args, u, db, day, f) ==
  IF args = <<>>
  THEN Outcome(Response(FALSE, "Search keyword required"), db, <<>>, <<>>, FALSE)
  ELSE IF Fails(f, "find")
  THEN Outcome([Response(FALSE, "Search Error") EXCEPT !.diag = Untruncated(f)],
               db, <<"find">>, <<>>, TRUE)
  ELSE
    LET subscriptions == Where(db, u.chat)
        matching_subs == Filter(subscriptions, Lower(args[1]))
    IN IF subscriptions = <<>>
       THEN Outcome([Response(TRUE, "No subscriptions to search") EXCEPT
                       !.data = "results"],
                    db, <<"find">>, <<>>, FALSE)
       ELSE IF matching_subs = <<>>
       THEN Outcome([Response(TRUE, "No matches found") EXCEPT
                       !.data = "results", !.nums = <<Len(subscriptions)>>],
                    db, <<"find">>, <<>>, FALSE)
       ELSE Outcome([Response(TRUE, "Found results") EXCEPT
                       !.data = "results",
                       !.recs = matching_subs,
                       !.status = [i \in 1..Len(matching_subs) |->
                                     StatusOf(matching_subs[i].expiry, day, SearchThreshold)],
                       !.nums = <<Len(subscriptions)>>],
                    db, <<"find">>, <<>>, FALSE)

handle_help(args, u, db, f) ==
  LET available_commands == get_commands_for_role(u.role)
  IN IF args # <<>>
     THEN LET cmd_name == Lower(args[1])
          IN IF ~Registered(cmd_name) \/ cmd_name \notin available_commands
             THEN Outcome([Response(FALSE, "Command not found") EXCEPT
                             !.names = available_commands],
                          db, <<>>, <<>>, FALSE)
             ELSE Outcome([Response(TRUE, "Help for command") EXCEPT
                             !.data = "command_help", !.names = {cmd_name}],
                          db, <<>>, <<>>, FALSE)
     ELSE Outcome([Response(TRUE, "Help") EXCEPT
                     !.data = "available_commands", !.names = available_commands],
                  db, <<>>, <<>>, FALSE)

\* float(amount_str) succeeds (the amounts in use are unsigned integers or
\* not numbers at all)
IsNumber(amount) ==
  amount # "" /\ \A i \in 1..Len(amount) : CharAt(amount, i) \in Digits

RECURSIVE TotalAmountUntilBad(_)
\* variant: the first amount that does not parse ends the summation
TotalAmountUntilBad(subs) ==
  IF subs = <<>> THEN 0
  ELSE IF ParseDate(Head(subs).expiry).ok /\ IsNumber(Head(subs).amount)
       THEN NumberOf(Head(subs).amount) + TotalAmountUntilBad(Tail(subs))
       ELSE 0

RECURSIVE TotalAmount(_)
\* total_amount of the loop of _handle_stats: a document whose expiry does not
\* parse is skipped whole, an amount that does not parse adds nothing
TotalAmount(subs) ==
  IF subs = <<>> THEN 0
  ELSE LET d == Head(subs)
       IN (IF ParseDate(d.expiry).ok /\ IsNumber(d.amount)
           THEN NumberOf(d.amount) ELSE 0)
          + TotalAmount(Tail(subs))

\* variant: stats counts with the three-day threshold of list
CountStatusList(subs, day, st) ==
  Cardinality({i \in 1..Len(subs) : StatusOf(subs[i].expiry, day, ListThreshold) = st})

\* how many documents of subs the stats loop gives the status st
CountStatus(subs, day, st) ==
  Cardinality({i \in 1..Len(subs) : StatusOf(subs[i].expiry, day, StatsThreshold) = st})

\* variant: a stats handler whose except clause reports success
handle_stats_swallowing(args, u, db, day, f) ==
  IF Fails(f, "find")
  THEN Outcome([Response(TRUE, "Stats Error") EXCEPT !.diag = Untruncated(f)],
               db, <<"find">>, <<>>, TRUE)
  ELSE Outcome([Response(TRUE, "Account Statistics") EXCEPT !.data = "stats"],
               db, <<"find">>, <<>>, FALSE)

handle_stats(args, u, db, day, f) ==
  IF Fails(f, "find")
  THEN Outcome([Response(FALSE, "Stats Error") EXCEPT !.diag = Untruncated(f)],
               db, <<"find">>, <<>>, TRUE)
  ELSE
    LET subscriptions == Where(db, u.chat)
    IN Outcome([Response(TRUE, "Account Statistics") EXCEPT
                  !.data = "stats",
                  !.nums = <<Len(subscriptions),
                             CountStatus(subscriptions, day, "ACTIVE"),
                             CountStatus(subscriptions, day, "EXPIRING SOON"),
                             CountStatus(subscriptions, day, "EXPIRED"),
                             TotalAmount(subscriptions),
                             u.max_subscriptions>>,
                  !.names = {SUBSCRIPTION_PLANS[u.plan_type].name}],
               db, <<"find">>, <<>>, FALSE)

\* variant: the seventh day is outside the window
ExpiringBeforeSeventh(doc, day) ==
  LET p == ParseDate(doc.expiry)
  IN p.ok /\ 0 <= p.ord - day /\ p.ord - day < 7

\* 0 <= days_left <= 7, for an expiry that parses
Expiring(doc, day) ==
  LET p == ParseDate(doc.expiry)
  IN p.ok /\ 0 <= p.ord - day /\ p.ord - day <= 7

RECURSIVE ExpiringSubs(_, _)
ExpiringSubs(subs, day) ==
  IF subs = <<>> THEN <<>>
  ELSE IF Expiring(Head(subs), day)
       THEN <<Head(subs)>> \o ExpiringSubs(Tail(subs), day)
       ELSE ExpiringSubs(Tail(subs), day)

handle_sendreminder(args, u, db, day, f) ==
  IF Fails(f, "find")
  THEN Outcome([Response(FALSE, "Reminder Error") EXCEPT !.diag = Untruncated(f)],
               db, <<"find">>, <<>>, TRUE)
  ELSE
    LET expiring_subs == ExpiringSubs(Where(db, u.chat), day)
        msg == [to |-> expiring_subs[1].email, recs |-> expiring_subs]
    IN IF expiring_subs = <<>>
       THEN Outcome(Response(TRUE, "No urgent reminders needed"),
                    db, <<"find">>, <<>>, FALSE)
       ELSE IF Fails(f, "send")
       THEN Outcome([Response(FALSE, "Reminder Error") EXCEPT !.diag = Untruncated(f)],
                    db, <<"find", "send">>, <<msg>>, TRUE)
       ELSE Outcome([Response(TRUE, "Reminder sent successfully") EXCEPT
                       !.data = "expiring_subscriptions",
                       !.recs = expiring_subs],
                    db, <<"find", "send">>, <<msg>>, FALSE)

\* variant: the plan key is looked up as typed
handle_upgrade_as_typed(args, u, db, f) ==
  IF args # <<>>
  THEN IF args[1] \notin DOMAIN SUBSCRIPTION_PLANS
       THEN Outcome([Response(FALSE, "Invalid plan") EXCEPT
                       !.names = DOMAIN SUBSCRIPTION_PLANS],
                    db, <<>>, <<>>, FALSE)
       ELSE Outcome([Response(TRUE, "Plan detail") EXCEPT
                       !.data = "plan_info",
                       !.names = {args[1]},
                       !.nums = <<SUBSCRIPTION_PLANS[args[1]].max_subscriptions>>,
                       !.status = <<IF args[1] = u.plan_type
                                    THEN "This is your current plan"
                                    ELSE "Contact admin to upgrade to this plan">>,
                       !.web_redirect = "/upgrade"],
                    db, <<>>, <<>>, FALSE)
  ELSE Outcome([Response(TRUE, "Available Subscription Plans") EXCEPT
                  !.data = "all_plans",
                  !.names = {u.plan_type},
                  !.web_redirect = "/upgrade"],
               db, <<>>, <<>>, FALSE)

handle_upgrade(args, u, db, f) ==
  LET current_plan == u.plan_type
  IN IF args # <<>>
     THEN LET plan_type == Lower(args[1])
          IN IF plan_type \notin DOMAIN SUBSCRIPTION_PLANS
             THEN Outcome([Response(FALSE, "Invalid plan") EXCEPT
                             !.names = DOMAIN SUBSCRIPTION_PLANS],
                          db, <<>>, <<>>, FALSE)
             ELSE Outcome([Response(TRUE, "Plan detail") EXCEPT
                             !.data = "plan_info",
                             !.names = {plan_type},
                             !.nums = <<SUBSCRIPTION_PLANS[plan_type].max_subscriptions>>,
                             !.status = <<IF plan_type = current_plan
                                          THEN "This is your current plan"
                                          ELSE "Contact admin to upgrade to this plan">>,
                             !.web_redirect = "/upgrade"],
                          db, <<>>, <<>>, FALSE)
     ELSE Outcome([Response(TRUE, "Available Subscription Plans") EXCEPT
                     !.data = "all_plans",
                     !.names = {current_plan},
                     !.web_redirect = "/upgrade"],
                  db, <<>>, <<>>, FALSE)

(***************************************************************************)
(* CommandProcessor.process_command.                                       *)
(***************************************************************************)
\* the names n for which the class defines a method _handle_<n>
HandlerNames ==
  {"start", "list", "add", "delete", "search", "help", "stats", "sendreminder",
   "upgrade"}

\* hasattr(self, f"_handle_{command_name}")
HasHandler(command_name) == command_name \in HandlerNames

\* variant: a permission check that admits every role
PermittedAnyone(role, cmd_def) == TRUE

\* user_role in cmd_def.permissions
Permitted(role, cmd_def) == role \in Range(cmd_def.permissions)

\* getattr(self, handler_method)(args, user_data)
Dispatch(command_name, args, u, db, day, f, nid, pos) ==
  CASE command_name = "start"  -> handle_start(args, u, db, f)
    [] command_name = "list"   -> handle_list(args, u, db, day, f)
    [] command_name = "add"    -> handle_add(args, u, db, day, f, nid, pos)
    [] command_name = "delete" -> handle_delete(args, u, db, f)
    [] command_name = "search" -> handle_search(args, u, db, day, f)
    [] command_name = "help"   -> handle_help(args, u, db, f)
    [] command_name = "stats"  -> handle_stats(args, u, db, day, f)
    [] command_name = "sendreminder" -> handle_sendreminder(args, u, db, day, f)
    [] command_name = "upgrade" -> handle_upgrade(args, u, db, f)

\* except Exception as e, around the whole of process_command
Barrier(out) ==
  IF out.escaped
  THEN Outcome([Response(FALSE, "Error processing command") EXCEPT
                  !.diag = Min(out.resp.diag, DiagLimit)],
               out.store, out.calls, out.mails, out.raised)
  ELSE out

\* variant: a processor that checks permission and looks for a handler but
\* never rejects a name the registry does not resolve
process_command_unresolved(command_name, args, u, db, day, f, nid, pos) ==
  IF Registered(command_name) /\ ~Permitted(u.role, get_command(command_name))
  THEN Outcome(Response(FALSE, "Permission denied"), db, <<>>, <<>>, FALSE)
  ELSE IF Registered(command_name) /\ HasHandler(command_name)
  THEN Barrier(Dispatch(command_name, args, u, db, day, f, nid, pos))
  ELSE Outcome(Response(FALSE, "Command handler not implemented"), db, <<>>, <<>>, FALSE)

\* variant: a processor that runs the handler first and tests the permission
\* on its return
process_command_late_check(command_name, args, u, db, day, f, nid, pos) ==
  IF ~Registered(command_name)
  THEN Outcome(Response(FALSE, "Unknown command"), db, <<>>, <<>>, FALSE)
  ELSE IF ~HasHandler(command_name)
  THEN Outcome(Response(FALSE, "Command handler not implemented"), db, <<>>, <<>>, FALSE)
  ELSE IF ~Permitted(u.role, get_command(command_name))
  THEN [Barrier(Dispatch(command_name, args, u, db, day, f, nid, pos)) EXCEPT
          !.resp = [Response(FALSE, "Permission denied") EXCEPT
                      !.names = Range(get_command(command_name).permissions),
                      !.status = <<u.role>>]]
  ELSE Barrier(Dispatch(command_name, args, u, db, day, f, nid, pos))

process_command(command_name, args, u, db, day, f, nid, pos) ==
  IF ~Registered(command_name)
  THEN Outcome(Response(FALSE, "Unknown command"), db, <<>>, <<>>, FALSE)
  ELSE IF ~Permitted(u.role, get_command(command_name))
  THEN Outcome([Response(FALSE, "Permission denied") EXCEPT
                  !.names = Range(get_command(command_name).permissions),
                  !.status = <<u.role>>],
               db, <<>>, <<>>, FALSE)
  ELSE IF HasHandler(command_name)
  THEN Barrier(Dispatch(command_name, args, u, db, day, f, nid, pos))
  ELSE Outcome(Response(FALSE, "Command handler not implemented"), db, <<>>, <<>>, FALSE)

(***************************************************************************)
(* Identities (main.py).  users is the users collection in iteration       *)
(* order.                                                                  *)
(***************************************************************************)
Identity(chat, role, plan_type, max_subscriptions) ==
  [chat |-> chat, role |-> role, plan_type |-> plan_type,
   max_subscriptions |-> max_subscriptions]

\* users[0] of db.collection('users').where('telegram_chat_id', '==', chat).get()
get_user_by_chat_id(chat) ==
  users[CHOOSE i \in 1..Len(users) :
          /\ users[i].chat = chat
          /\ \A j \in 1..(i - 1) : users[j].chat # chat]

Chats == {1, 2}

(***************************************************************************)
(* Inputs.                                                                 *)
(***************************************************************************)
NoFault == [at |-> "none", len |-> 0]

\* the faults of the collaborator calls in calls
FaultsAt(calls) == {NoFault} \cup [at : calls, len : {ErrShort, ErrLong}]

Prefixes(full) == {SubSeq(full, 1, n) : n \in 0..Len(full)}

\* full followed by ExtraArgs further tokens
Padded(full) == full \o [i \in 1..ExtraArgs |-> "x"]

AddGood == <<"john", "j@x.io", "Netflix", "2025-01-14", "100">>

\* the names help is asked about: every registered name, two in another
\* spelling, one that is not registered
HelpNames == DOMAIN COMMANDS \cup {"LIST", "Stats", "ping"}

\* the keys upgrade is asked about: every key of the plan table, one in
\* upper case, and one that is no key
PlanKeys == DOMAIN SUBSCRIPTION_PLANS \cup {"FREE", "bogus"}

\* the argument lists the core specification sends with each command
CoreArgs(command_name) ==
  CASE command_name = "add" ->
         Prefixes(Padded(AddGood)) \cup
           { <<"john", "jx.io", "Netflix", "2025-01-14">>,
             <<"john", "j@xio", "Netflix", "2025-01-14">>,
             <<"john", "j@x.io", "Netflix", "soon">>,
             <<"john", "j@x.io", "Netflix", "2025-02-30">>,
             <<"john", "j@x.io", "Netflix", "2025-01-09">>,
             <<"john", "j@x.io", "Netflix", "2025-01-10">> }
    [] command_name = "delete" -> Prefixes(Padded(<<"a">>)) \cup {<<"zz">>}
    [] command_name = "search" -> Prefixes(Padded(<<"NET">>)) \cup {<<"zz">>}
    [] command_name = "upgrade" ->
         Prefixes(Padded(<<"Premium">>)) \cup {<<k>> : k \in PlanKeys}
    [] command_name = "help" ->
         Prefixes(Padded(<<"stats">>)) \cup {<<n>> : n \in HelpNames}
    [] command_name = "promote" -> Prefixes(Padded(<<"u1", "manager">>))
    [] OTHER -> Prefixes(Padded(<<>>))

CoreIds == {"a", "ab"}

\* no invocation is in progress: the last response has been returned
NoInvocation ==
  [chat |-> 0, role |-> "none", cmd |-> "none", args |-> <<>>, fault |-> "none",
   calls |-> <<>>, mails |-> <<>>, raised |-> FALSE, before |-> <<>>, count |-> 0]

Idle == Response(TRUE, "none")

(***************************************************************************)
(* One invocation of process_command by the caller with chat id chat.      *)
(* last records the invocation: its inputs, the store before it, and the   *)
(* collaborator calls it made.  cap bounds the size of the collection.     *)
(* The response stays in resp until Return hands it to the transport; the  *)
(* processor keeps nothing of an invocation after that.                    *)
(***************************************************************************)
\* the invocation by u returned out: the store and the response are replaced
\* (count: the number of the caller's documents the invocation saw)
Completed(u, command_name, args, f, cap, count, out) ==
  /\ Len(out.store) <= cap
  /\ store' = out.store
  /\ resp' = out.resp
  /\ last' = [chat |-> u.chat, role |-> u.role, cmd |-> command_name, args |-> args,
              fault |-> f.at, calls |-> out.calls, mails |-> out.mails,
              raised |-> out.raised, before |-> store, count |-> count]
  /\ UNCHANGED <<users, today>>

Invoke(u, command_name, args, f, nid, pos, cap) ==
  /\ Completed(u, command_name, args, f, cap, Len(Where(store, u.chat)),
               process_command(command_name, args, u, store, today, f, nid, pos))
  /\ UNCHANGED inflight

\* the response is serialized to the transport; the request is over
Return ==
  /\ last # NoInvocation
  /\ last' = NoInvocation
  /\ resp' = Idle
  /\ UNCHANGED <<store, users, today, inflight>>

(***************************************************************************)
(* The core specification: every command, by callers of every role, with   *)
(* and without collaborator faults.                                        *)
(***************************************************************************)
Start ==
  /\ last = NoInvocation
  /\ \E chat \in Chats, args \in CoreArgs("start") :
       Invoke(get_user_by_chat_id(chat), "start", args, NoFault, "a", 0, MaxSubs)

List ==
  /\ last = NoInvocation
  /\ \E chat \in Chats, args \in CoreArgs("list"), f \in FaultsAt({"find"}) :
       Invoke(get_user_by_chat_id(chat), "list", args, f, "a", 0, MaxSubs)

\* the store generates an unused id nid and places the document at pos
Add ==
  /\ last = NoInvocation
  /\ \E chat \in Chats, args \in CoreArgs("add"), f \in FaultsAt({"find", "add"}) :
       \E nid \in {i \in CoreIds : i \notin IdsOf(store)} :
         \E pos \in 0..Len(store) :
           Invoke(get_user_by_chat_id(chat), "add", args, f, nid, pos, MaxSubs)

Delete ==
  /\ last = NoInvocation
  /\ \E chat \in Chats, args \in CoreArgs("delete"), f \in FaultsAt({"find", "delete"}) :
       Invoke(get_user_by_chat_id(chat), "delete", args, f, "a", 0, MaxSubs)

Search ==
  /\ last = NoInvocation
  /\ \E chat \in Chats, args \in CoreArgs("search"), f \in FaultsAt({"find"}) :
       Invoke(get_user_by_chat_id(chat), "search", args, f, "a", 0, MaxSubs)

Help ==
  /\ last = NoInvocation
  /\ \E chat \in Chats, args \in CoreArgs("help") :
       Invoke(get_user_by_chat_id(chat), "help", args, NoFault, "a", 0, MaxSubs)

Stats ==
  /\ last = NoInvocation
  /\ \E chat \in Chats, args \in CoreArgs("stats"), f \in FaultsAt({"find"}) :
       Invoke(get_user_by_chat_id(chat), "stats", args, f, "a", 0, MaxSubs)

SendReminder ==
  /\ last = NoInvocation
  /\ \E chat \in Chats, args \in CoreArgs("sendreminder"), f \in FaultsAt({"find", "send"}) :
       Invoke(get_user_by_chat_id(chat), "sendreminder", args, f, "a", 0, MaxSubs)

Upgrade ==
  /\ last = NoInvocation
  /\ \E chat \in Chats, args \in CoreArgs("upgrade") :
       Invoke(get_user_by_chat_id(chat), "upgrade", args, NoFault, "a", 0, MaxSubs)

Promote ==
  /\ last = NoInvocation
  /\ \E chat \in Chats, args \in CoreArgs("promote") :
       Invoke(get_user_by_chat_id(chat), "promote", args, NoFault, "a", 0, MaxSubs)

ForcedReminder ==
  /\ last = NoInvocation
  /\ \E chat \in Chats, args \in CoreArgs("forcedreminder") :
       Invoke(get_user_by_chat_id(chat), "forcedreminder", args, NoFault, "a", 0, MaxSubs)

\* a name that is not in the registry
Unknown ==
  /\ last = NoInvocation
  /\ \E chat \in Chats, args \in CoreArgs("ping") :
       Invoke(get_user_by_chat_id(chat), "ping", args, NoFault, "a", 0, MaxSubs)

\* registered names in other spellings, as a caller of process_command other
\* than the entry point may pass them
VariantNames == {"LIST", "List", "HELP", "Stats"}

Variant ==
  /\ last = NoInvocation
  /\ \E chat \in Chats, command_name \in VariantNames :
       Invoke(get_user_by_chat_id(chat), command_name, <<>>, NoFault, "a", 0, MaxSubs)

\* The identity of chat 1 was created on first contact (free plan) and may
\* since have been given any role; chat 2 is an owner on an unlimited plan.
Init ==
  /\ store = <<>>
  /\ \E r \in Roles :
       users = << Identity(1, r, "free", FreePlanQuota),
                  Identity(2, "owner", "monthly_unlimited", Unlimited) >>
  /\ today = Day0
  /\ inflight = <<>>
  /\ last = NoInvocation
  /\ resp = Idle

Next ==
  \/ Start \/ List \/ Add \/ Delete \/ Search \/ Help \/ Stats
  \/ SendReminder \/ Upgrade \/ Promote \/ ForcedReminder \/ Unknown
  \/ Variant \/ Return

Spec == Init /\ [][Next]_vars

(***************************************************************************)
(* The quota specification: a caller whose quota is SmallQuota and a       *)
(* caller on an unlimited plan add, delete and list, one invocation at a   *)
(* time.                                                                   *)
(***************************************************************************)
QuotaIds == {"q1", "q2", "q3", "q4"}

QuotaArgs ==
  { AddGood,
    <<"john", "jx.io", "Netflix", "2025-01-14", "100">>,
    <<"john", "j@xio", "Netflix", "soon">>,
    <<"john", "jx.io", "Netflix", "2025-01-09">>,
    <<"john", "j@x.io", "Netflix">> }

QAdd ==
  /\ last = NoInvocation
  /\ \E chat \in Chats, args \in QuotaArgs,
        f \in {NoFault, [at |-> "find", len |-> ErrLong], [at |-> "add", len |-> ErrLong]} :
       \E nid \in {i \in QuotaIds : i \notin IdsOf(store)} :
         \E pos \in 0..Len(store) :
           Invoke(get_user_by_chat_id(chat), "add", args, f, nid, pos, MaxQuotaSubs)

QDelete ==
  /\ last = NoInvocation
  /\ \E chat \in Chats, id \in QuotaIds,
        f \in {NoFault, [at |-> "find", len |-> ErrLong], [at |-> "delete", len |-> ErrLong]} :
       Invoke(get_user_by_chat_id(chat), "delete", <<id>>, f, "q1", 0, MaxQuotaSubs)

QList ==
  /\ last = NoInvocation
  /\ \E chat \in Chats :
       Invoke(get_user_by_chat_id(chat), "list", <<>>, NoFault, "q1", 0, MaxQuotaSubs)

QUpgrade ==
  /\ last = NoInvocation
  /\ \E chat \in Chats, args \in {<<>>, <<"premium">>} :
       Invoke(get_user_by_chat_id(chat), "upgrade", args, NoFault, "q1", 0, MaxQuotaSubs)

\* chat 1 holds a plan that allows SmallQuota subscriptions, chat 2 is an
\* owner on an unlimited plan
InitQuota ==
  /\ store = <<>>
  /\ users = << Identity(1, "user", "basic", SmallQuota),
                Identity(2, "owner", "monthly_unlimited", Unlimited) >>
  /\ today = Day0
  /\ inflight = <<>>
  /\ last = NoInvocation
  /\ resp = Idle

NextQuota == QAdd \/ QDelete \/ QList \/ QUpgrade \/ Return

SpecQuota == InitQuota /\ [][NextQuota]_vars

(***************************************************************************)
(* The race specification: add invocations run concurrently.  Between its  *)
(* count query and its insert an invocation is in flight, and the other    *)
(* invocations take their steps.                                           *)
(***************************************************************************)
RaceIds == {"r1", "r2", "r3", "r4"}

\* the caller whose invocations race: chat 1, whose quota is SmallQuota
RaceChats == {1}

RaceArgs == {AddGood, <<"john", "jx.io", "Netflix", "2025-01-14", "100">>}

\* variant: the count is taken again at the time of the insert
current_count_at_insert(req) == Len(Where(store, req.chat))

\* the local variable current_count of the invocation req in flight: what its
\* count query returned
current_count(req) == req.count

\* _handle_add up to its count query.  An argument list the checks reject is
\* answered at once; otherwise the invocation is in flight with its count.
RAddRead ==
  \E chat \in RaceChats, args \in RaceArgs :
    IF add_validate(args, today).success
    THEN /\ Len(inflight) < MaxInflight
         /\ inflight' = Append(inflight, [chat |-> chat, args |-> args,
                                          count |-> Len(Where(store, chat))])
         /\ UNCHANGED <<store, users, today, last, resp>>
    ELSE /\ last = NoInvocation
         /\ Completed(get_user_by_chat_id(chat), "add", args, NoFault, MaxQuotaSubs, 0,
                      Outcome(add_validate(args, today), store, <<>>, <<>>, FALSE))
         /\ UNCHANGED inflight

\* _handle_add from its quota check to its insert, for the i-th invocation
\* in flight
RAddWrite ==
  /\ last = NoInvocation
  /\ \E i \in 1..Len(inflight), f \in {NoFault, [at |-> "add", len |-> ErrLong]} :
       \E nid \in {n \in RaceIds : n \notin IdsOf(store)} :
         \E pos \in 0..Len(store) :
           /\ Completed(get_user_by_chat_id(inflight[i].chat), "add", inflight[i].args, f,
                        MaxQuotaSubs, inflight[i].count,
                        add_insert(inflight[i].args, get_user_by_chat_id(inflight[i].chat),
                                   store, current_count(inflight[i]), f, nid, pos))
           /\ inflight' = SubSeq(inflight, 1, i - 1) \o SubSeq(inflight, i + 1, Len(inflight))

NextRace == RAddRead \/ RAddWrite \/ Return

SpecRace == InitQuota /\ [][NextRace]_vars

(***************************************************************************)
(* The delete specification: two callers fill the collection with          *)
(* documents whose ids share prefixes, in every order, and delete by id    *)
(* and by prefix.                                                          *)
(***************************************************************************)
DeleteIdSeq == <<"ab", "abc", "abd0123456", "b", "ba">>

\* the ids the store generates
DeleteIds == {DeleteIdSeq[i] : i \in 1..Min(MaxDeleteSubs, Len(DeleteIdSeq))}

DeleteArgs ==
  {<<>>, <<"a">>, <<"ab">>, <<"abc">>, <<"abd01234">>, <<"b">>, <<"zz">>}

DAdd ==
  /\ last = NoInvocation
  /\ \E chat \in Chats :
       \E nid \in {i \in DeleteIds : i \notin IdsOf(store)} :
         \E pos \in 0..Len(store) :
           Invoke(get_user_by_chat_id(chat), "add", AddGood, NoFault, nid, pos, MaxDeleteSubs)

DDelete ==
  /\ last = NoInvocation
  /\ \E chat \in Chats, args \in DeleteArgs,
        f \in {NoFault, [at |-> "find", len |-> ErrLong], [at |-> "delete", len |-> ErrLong]} :
       Invoke(get_user_by_chat_id(chat), "delete", args, f, "ab", 0, MaxDeleteSubs)

\* both callers hold plans that admit every document of the specification
InitDelete ==
  /\ store = <<>>
  /\ users = << Identity(1, "free", "free", FreePlanQuota),
                Identity(2, "owner", "monthly_unlimited", Unlimited) >>
  /\ today = Day0
  /\ inflight = <<>>
  /\ last = NoInvocation
  /\ resp = Idle

NextDelete == DAdd \/ DDelete \/ Return

SpecDelete == InitDelete /\ [][NextDelete]_vars

(***************************************************************************)
(* Properties of the core specification.  An invocation is judged in the   *)
(* state it leaves: last holds its inputs, resp its response.              *)
(***************************************************************************)
Invoked == last # NoInvocation

\* the caller's role is in the permissions list the registry gives the command
Allowed == last.role \in Range(COMMANDS[Lower(last.cmd)].permissions)

\* C1: for every command of the registry, every role and every argument list,
\* process_command returns the 'Permission denied' failure exactly when the
\* caller's role is not in the command's permissions list.
C1_PermissionDeniedIffNotAllowed ==
  (Invoked /\ Lower(last.cmd) \in DOMAIN COMMANDS) =>
    ((resp.kind = "Permission denied" /\ ~resp.success) <=> ~Allowed)

\* a free caller was denied sendreminder
C1_Witness ==
  /\ Invoked /\ last.cmd = "sendreminder" /\ last.role = "free"
  /\ resp.kind = "Permission denied" /\ ~resp.success

\* C2: for a registered command and an allowed caller, an argument list that
\* fails arity validation gets a failure response, and the invocation changes
\* nothing in the store and sends no mail.
C2_ArityFailureRejected ==
  (/\ Invoked /\ Lower(last.cmd) \in DOMAIN COMMANDS /\ Allowed
   /\ validate_command_args(last.cmd, last.args) # "Valid")
    => (~resp.success /\ store = last.before /\ last.mails = <<>>)

\* C6: process_command returns a response for every invocation, and the
\* response has success = false whenever a collaborator call it made failed.
C6_FaultsBecomeFailures ==
  Invoked =>
    /\ resp.kind \notin {"none", "raise"}
    /\ (last.fault \in Range(last.calls)) => ~resp.success
    /\ last.raised <=> (last.fault \in Range(last.calls))

\* the mail collaborator failed in sendreminder, after the storage read
C6_Witness ==
  /\ Invoked /\ last.cmd = "sendreminder" /\ last.fault = "send"
  /\ last.calls = <<"find", "send">> /\ ~resp.success

\* C7: a registered command invoked by an allowed caller with arguments that
\* pass arity validation never gets 'Command handler not implemented'.
C7_EveryCommandHasHandler ==
  (/\ Invoked /\ Lower(last.cmd) \in DOMAIN COMMANDS /\ Allowed
   /\ validate_command_args(last.cmd, last.args) = "Valid")
    => resp.kind # "Command handler not implemented"

\* C8: a name the registry does not resolve gets the 'Unknown command'
\* failure, whatever the caller's role.
C8_UnknownCommandFirst ==
  (Invoked /\ Lower(last.cmd) \notin DOMAIN COMMANDS) =>
    (resp.kind = "Unknown command" /\ ~resp.success)

\* a free caller sent a name that is not in the registry
C8_Witness ==
  /\ Invoked /\ last.cmd = "ping" /\ last.role = "free"
  /\ resp.kind = "Unknown command"

(***************************************************************************)
(* Properties of the quota specification.                                  *)
(***************************************************************************)
\* the number of documents of db that chat owns
Owned(db, chat) == Len(Where(db, chat))

\* identity.max_subscriptions of the caller with chat id chat
QuotaOf(chat) == get_user_by_chat_id(chat).max_subscriptions

\* the last invocation was an add whose arguments pass every check before the
\* count query, and no collaborator call of it failed
ValidAdd ==
  /\ Invoked /\ last.cmd = "add" /\ last.fault = "none"
  /\ add_validate(last.args, today).success

\* the quota-exceeded failure, with nothing stored
QuotaExceeded ==
  /\ ~resp.success /\ resp.kind = "Subscription limit reached"
  /\ resp.web_redirect = "/upgrade"
  /\ store = last.before

\* C3: an otherwise valid add by a caller who owns n subscriptions and has
\* quota q gets the quota-exceeded failure (redirect '/upgrade', store
\* unchanged) exactly when q is not the sentinel 999999 and n >= q; otherwise
\* it succeeds, so with the sentinel quota no add fails because of the count.
C3_QuotaExceededIffAtQuota ==
  ValidAdd =>
    /\ QuotaExceeded <=>
         (QuotaOf(last.chat) # 999999 /\ Owned(last.before, last.chat) >= QuotaOf(last.chat))
    /\ ~QuotaExceeded => resp.success
    /\ QuotaOf(last.chat) = 999999 => resp.success

\* the metered caller owns exactly its quota and its add is refused
C3_Witness ==
  /\ ValidAdd /\ last.chat = 1 /\ Owned(last.before, 1) = QuotaOf(1)
  /\ QuotaExceeded

\* C4: with invocations executed one at a time, a caller whose quota is not
\* the sentinel never owns more subscriptions than its quota.
C4_QuotaInvariant ==
  \A chat \in Chats :
    QuotaOf(chat) # Unlimited => Owned(store, chat) <= QuotaOf(chat)

\* the metered caller is at its quota, the other caller holds documents too,
\* and a further add of the metered caller has just been refused
C4_Witness ==
  /\ Owned(store, 1) = SmallQuota /\ Owned(store, 2) > 0
  /\ Invoked /\ last.cmd = "add" /\ last.chat = 1
  /\ resp.kind = "Subscription limit reached"

(***************************************************************************)
(* Properties of the race specification.                                   *)
(***************************************************************************)
\* C5: the quota check of add is decided by the count its own query returned,
\* not by the count at the time of the insert: a valid add that saw a count
\* below the quota succeeds and inserts one document, whatever was inserted
\* in between.  Two adds of one caller that both saw q-1 therefore both
\* succeed and leave the caller with q+1 subscriptions.
C5_CheckAndInsertNotAtomic ==
  ValidAdd =>
    /\ resp.success <=>
         ~(QuotaOf(last.chat) # Unlimited /\ last.count >= QuotaOf(last.chat))
    /\ resp.success => Len(store) = Len(last.before) + 1

\* the second of two adds that both saw q-1 has succeeded: the caller owned q
\* subscriptions before its insert and owns q+1 now
C5_Witness ==
  /\ ValidAdd /\ resp.success /\ last.chat = 1
  /\ last.count = SmallQuota - 1
  /\ Owned(last.before, 1) = SmallQuota
  /\ Owned(store, 1) = SmallQuota + 1

(***************************************************************************)
(* Properties of the delete specification.                                 *)
(***************************************************************************)
\* the caller's subscriptions before the last invocation, in iteration order
Mine == Where(last.before, last.chat)

\* the positions in Mine whose id equals or starts with the argument
MatchingPositions ==
  {i \in 1..Len(Mine) : Mine[i].id = last.args[1] \/ StartsWith(Mine[i].id, last.args[1])}

\* the least of a non-empty set of positions
Least(S) == CHOOSE i \in S : \A j \in S : i <= j

\* db without the document whose id is id, the others in place
Removed(db, id) == SelectSeq(db, LAMBDA d : d.id # id)

\* the response and the store of a delete that took the document doc
DeletedExactly(doc) ==
  /\ resp.data = "deleted_subscription"
  /\ resp.recs = <<doc>>
  /\ store = Removed(last.before, doc.id)
  /\ Len(store) = Len(last.before) - 1

\* C9: a successful delete removes exactly one subscription, the first of the
\* caller's subscriptions in iteration order whose id equals or starts with
\* the argument; it returns that record as data.deleted_subscription and
\* leaves every other subscription, of any caller, as it was.
C9_DeleteFirstMatch ==
  (Invoked /\ last.cmd = "delete" /\ resp.success) =>
    /\ MatchingPositions # {}
    /\ DeletedExactly(Mine[Least(MatchingPositions)])

\* a prefix that matches several of the caller's ids deleted one of them,
\* while another caller holds documents
C9_Witness ==
  /\ Invoked /\ last.cmd = "delete" /\ resp.success
  /\ Cardinality(MatchingPositions) >= 2
  /\ last.args[1] \notin IdsOf(last.before)
  /\ Len(Mine) < Len(last.before)

\* the first n of the caller's ids, as the message shows them
FirstShown(n) == [i \in 1..Min(n, Len(Mine)) |-> Take(Mine[i].id, IdShown)]

\* C10: when no collaborator call fails, a delete whose argument is a prefix
\* of none of the caller's ids returns a failure that lists at most 3
\* candidates, the first 3 of the caller's subscriptions in iteration order,
\* and leaves the store unchanged.
C10_DeleteNoMatch ==
  (/\ Invoked /\ last.cmd = "delete" /\ last.args # <<>> /\ ~last.raised
   /\ MatchingPositions = {})
    => /\ ~resp.success
       /\ store = last.before
       /\ Len(resp.hints) <= 3
       /\ resp.hints = FirstShown(3)

\* the caller owns more than 3 subscriptions, none matches, 3 are listed
C10_Witness ==
  /\ Invoked /\ last.cmd = "delete" /\ last.args = <<"zz">>
  /\ Len(Mine) > 3 /\ Len(resp.hints) = 3
  /\ resp.kind = "Subscription not found"

(***************************************************************************)
(* The lifecycle specification: two callers add, list and delete           *)
(* subscriptions and run the commands that only read, while the days pass. *)
(* Every handler reads the clock anew (datetime.now().date()), so the day  *)
(* an invocation sees is the day of the invocation.                        *)
(***************************************************************************)
\* the days that pass
MaxDays == 2
\* the size of the collection
MaxLifeSubs == 2

LifeIds == {"a", "ab"}

\* expiries today, in three, four, seven and eight days on Day0; yesterday's;
\* no dates
LifeExpiries ==
  {"2025-01-10", "2025-01-13", "2025-01-14", "2025-01-17", "2025-01-18",
   "2025-01-09", "2025-02-30", "soon"}

\* variant: the day's change sweeps the subscriptions that expired
TickPurging ==
  /\ last = NoInvocation
  /\ today < Day0 + MaxDays
  /\ today' = today + 1
  /\ store' = SelectSeq(store, LAMBDA d : ParseDate(d.expiry).ord >= today + 1)
  /\ UNCHANGED <<users, inflight, last, resp>>

\* datetime.now().date() returns the next day from now on
Tick ==
  /\ last = NoInvocation
  /\ today < Day0 + MaxDays
  /\ today' = today + 1
  /\ UNCHANGED <<store, users, inflight, last, resp>>

LAdd ==
  /\ last = NoInvocation
  /\ \E chat \in Chats, expiry \in LifeExpiries :
       \E nid \in {i \in LifeIds : i \notin IdsOf(store)} :
         \E pos \in 0..Len(store) :
           Invoke(get_user_by_chat_id(chat), "add",
                  <<"john", "j@x.io", "Netflix", expiry>>, NoFault, nid, pos, MaxLifeSubs)

LDelete ==
  /\ last = NoInvocation
  /\ \E chat \in Chats, id \in LifeIds :
       Invoke(get_user_by_chat_id(chat), "delete", <<id>>, NoFault, "a", 0, MaxLifeSubs)

LList ==
  /\ last = NoInvocation
  /\ \E chat \in Chats, f \in FaultsAt({"find"}) :
       Invoke(get_user_by_chat_id(chat), "list", <<>>, f, "a", 0, MaxLifeSubs)

LStart ==
  /\ last = NoInvocation
  /\ \E chat \in Chats :
       Invoke(get_user_by_chat_id(chat), "start", <<>>, NoFault, "a", 0, MaxLifeSubs)

LSearch ==
  /\ last = NoInvocation
  /\ \E chat \in Chats, args \in {<<"net">>, <<"zz">>} :
       Invoke(get_user_by_chat_id(chat), "search", args, NoFault, "a", 0, MaxLifeSubs)

LHelp ==
  /\ last = NoInvocation
  /\ \E chat \in Chats, args \in {<<>>, <<"add">>} :
       Invoke(get_user_by_chat_id(chat), "help", args, NoFault, "a", 0, MaxLifeSubs)

LStats ==
  /\ last = NoInvocation
  /\ \E chat \in Chats :
       Invoke(get_user_by_chat_id(chat), "stats", <<>>, NoFault, "a", 0, MaxLifeSubs)

LUpgrade ==
  /\ last = NoInvocation
  /\ \E chat \in Chats, args \in {<<>>, <<"premium">>} :
       Invoke(get_user_by_chat_id(chat), "upgrade", args, NoFault, "a", 0, MaxLifeSubs)

LSendReminder ==
  /\ last = NoInvocation
  /\ \E chat \in Chats, f \in FaultsAt({"send"}) :
       Invoke(get_user_by_chat_id(chat), "sendreminder", <<>>, f, "a", 0, MaxLifeSubs)

NextLife ==
  \/ LAdd \/ LDelete \/ LList \/ LStart \/ LSearch \/ LHelp \/ LStats
  \/ LUpgrade \/ LSendReminder \/ Tick \/ Return

SpecLife == InitQuota /\ [][NextLife]_vars

(***************************************************************************)
(* Properties of the lifecycle specification.                              *)
(***************************************************************************)
\* the documents of db that belong to chat, in iteration order
DocsOf(db, chat) == SelectSeq(db, LAMBDA d : d.chat = chat)

\* the day of an expiry in use, counted from Day0 (2025-01-10)
DayOffset(expiry) ==
  CASE expiry = "2025-01-09" -> 0 - 1
    [] expiry = "2025-01-10" -> 0
    [] expiry = "2025-01-13" -> 3
    [] expiry = "2025-01-14" -> 4
    [] expiry = "2025-01-17" -> 7
    [] expiry = "2025-01-18" -> 8

\* days_left = expiry - today on the day day
DaysLeft(expiry, day) == DayOffset(expiry) - (day - Day0)

\* the status the list shows for days_left
ListedStatus(days_left) ==
  IF days_left < 0 THEN "EXPIRED"
  ELSE IF days_left <= 3 THEN "EXPIRING SOON"
  ELSE "ACTIVE"

\* this step is an invocation of command_name
Invokes(command_name) == last = NoInvocation /\ last'.cmd = command_name

\* a successful add leaves the new record, built from its arguments, in the
\* store as a document of the caller
AddStoresRecord ==
  (Invokes("add") /\ resp'.success) =>
    /\ Len(resp'.recs) = 1
    /\ resp'.recs[1] \in Range(DocsOf(store', last'.chat))
    /\ resp'.recs[1].username = last'.args[1]
    /\ resp'.recs[1].email = last'.args[2]
    /\ resp'.recs[1].service = last'.args[3]
    /\ resp'.recs[1].expiry = last'.args[4]

\* a step that is not a delete keeps every document
KeptUnlessDeleted == ~Invokes("delete") => Range(store) \subseteq Range(store')

\* a list shows all the caller's documents, each with the status of its
\* days_left on the day of the list
ListShowsAll ==
  (Invokes("list") /\ ~last'.raised) =>
    /\ resp'.success
    /\ resp'.data = "subscriptions"
    /\ resp'.recs = DocsOf(store', last'.chat)
    /\ Len(resp'.status) = Len(resp'.recs)
    /\ \A i \in 1..Len(resp'.recs) :
         resp'.status[i] = ListedStatus(DaysLeft(resp'.recs[i].expiry, today'))

\* C11: after a successful add by a caller, a list by the same caller with no
\* delete in between returns the new record in data.subscriptions, and each
\* listed record's status is EXPIRED when days_left = expiry - today < 0,
\* EXPIRING SOON when 0 <= days_left <= 3 and ACTIVE when days_left > 3.
\* Step by step: an add stores the record, every step but a delete keeps it,
\* and a list returns all the caller's documents with these statuses.
C11_AddThenListShowsStatus ==
  [][AddStoresRecord /\ KeptUnlessDeleted /\ ListShowsAll]_vars

\* a list, a day after the add, shows a record one day past its expiry as
\* EXPIRED and a record expiring in exactly three days as EXPIRING SOON
C11_Witness ==
  /\ Invoked /\ last.cmd = "list" /\ resp.success /\ today > Day0
  /\ \E i, j \in 1..Len(resp.recs) :
       /\ DaysLeft(resp.recs[i].expiry, today) = 0 - 1
       /\ resp.status[i] = "EXPIRED"
       /\ DaysLeft(resp.recs[j].expiry, today) = 3
       /\ resp.status[j] = "EXPIRING SOON"

\* the expiries in use that are calendar dates in the form YYYY-MM-DD
\* (February has no 30th; "soon" is no date)
CalendarDates ==
  {"2025-01-09", "2025-01-10", "2025-01-13", "2025-01-14", "2025-01-17", "2025-01-18"}

\* the last invocation was an add with at least four arguments
AddWithExpiry == Invoked /\ last.cmd = "add" /\ Len(last.args) >= 4

\* the expiry argument is no calendar date, or a date before today
RejectedExpiry ==
  \/ last.args[4] \notin CalendarDates
  \/ DaysLeft(last.args[4], today) < 0

\* C12: add with at least four arguments whose expiry does not parse as a
\* YYYY-MM-DD calendar date, or parses to a date strictly before today, returns
\* a failure envelope and persists nothing; an expiry equal to today passes
\* the date check (the add succeeds and stores the record unless the caller
\* is at quota).
C12_ExpiryValidated ==
  AddWithExpiry =>
    /\ RejectedExpiry => (~resp.success /\ store = last.before
                          /\ resp.kind \in {"Invalid email format",
                                            "Invalid date format",
                                            "Expiry date is in the past"})
    /\ (~RejectedExpiry /\ DaysLeft(last.args[4], today) = 0) =>
         \/ /\ resp.success
            /\ Len(store) = Len(last.before) + 1
            /\ resp.recs[1].expiry = last.args[4]
         \/ /\ resp.kind = "Subscription limit reached"
            /\ Len(DocsOf(last.before, last.chat)) >= QuotaOf(last.chat)

\* an expiry that was accepted on its own day is rejected as past a day later
C12_Witness ==
  /\ AddWithExpiry /\ today = Day0 + 1 /\ last.args[4] = "2025-01-10"
  /\ ~resp.success /\ resp.kind = "Expiry date is in the past"
  /\ store = last.before
  /\ \E i \in 1..Len(store) : store[i].expiry = "2025-01-10"

\* the email arguments in use that lack '@' or lack '.'
LackingEmails == {"jx.io", "j@xio"}

\* C13: add with at least four arguments whose email argument lacks '@' or
\* lacks '.' returns the invalid-email failure envelope and persists nothing,
\* whatever the other arguments and the caller's quota state are: the email
\* check precedes the date check and the quota check, and no collaborator is
\* called.
C13_EmailCheckedFirst ==
  (AddWithExpiry /\ last.args[2] \in LackingEmails) =>
    /\ ~resp.success
    /\ resp.kind = "Invalid email format"
    /\ store = last.before
    /\ last.calls = <<>>

\* a caller at quota gave an email without '.' and an expiry that is no date
C13_Witness ==
  /\ AddWithExpiry /\ last.args[2] = "j@xio" /\ last.args[4] = "soon"
  /\ QuotaOf(last.chat) # Unlimited
  /\ Len(DocsOf(last.before, last.chat)) >= QuotaOf(last.chat)
  /\ resp.kind = "Invalid email format"

\* the commands that write to the subscription collection
Writers == {"add", "delete"}

\* the store changes only in an invocation of add or delete
OnlyWritersChangeStore ==
  store' # store => \E command_name \in Writers : Invokes(command_name)

\* C14: only add and delete change the subscription store: start, list,
\* search, help, stats, upgrade and sendreminder leave the store and the
\* callers' identities (plan_type, role, max_subscriptions) unchanged, and the
\* passage of time removes nothing, so an expired subscription stays in the
\* store, and in the list results, until its owner deletes it.
C14_OnlyAddAndDeleteWrite ==
  [][/\ OnlyWritersChangeStore
     /\ users' = users
     /\ today' # today => store' = store
     /\ (Invokes("list") /\ ~last'.raised) =>
          resp'.recs = DocsOf(store, last'.chat)]_vars

\* stats ran over a store that still holds an expired subscription of the
\* caller, and left the store as it was
C14_Witness ==
  /\ Invoked /\ last.cmd = "stats" /\ resp.success
  /\ store = last.before
  /\ \E i \in 1..Len(store) :
       store[i].chat = last.chat /\ DaysLeft(store[i].expiry, today) < 0

(***************************************************************************)
(* The reminder specification: two callers add subscriptions with          *)
(* different emails that expire today, in seven and in eight days, and ask *)
(* for reminders while the days pass; the storage read and mail.send may   *)
(* raise.                                                                  *)
(***************************************************************************)
\* the size of the collection
MaxMailSubs == 2

MailIds == {"m1", "m2"}

MailArgs ==
  { <<"john", email, "Netflix", expiry>> :
      email \in {"j@x.io", "k@x.io"},
      expiry \in {"2025-01-10", "2025-01-17", "2025-01-18"} }

MAdd ==
  /\ last = NoInvocation
  /\ \E chat \in Chats, args \in MailArgs :
       \E nid \in {i \in MailIds : i \notin IdsOf(store)} :
         \E pos \in 0..Len(store) :
           Invoke(get_user_by_chat_id(chat), "add", args, NoFault, nid, pos, MaxMailSubs)

MSendReminder ==
  /\ last = NoInvocation
  /\ \E chat \in Chats, f \in FaultsAt({"find", "send"}) :
       Invoke(get_user_by_chat_id(chat), "sendreminder", <<>>, f, "m1", 0, MaxMailSubs)

NextRemind == MAdd \/ MSendReminder \/ Tick \/ Return

SpecRemind == InitQuota /\ [][NextRemind]_vars

\* the caller's subscriptions, as the invocation found them, that expire
\* today or within the next seven days
DueSoon ==
  SelectSeq(DocsOf(last.before, last.chat),
            LAMBDA d : 0 <= DaysLeft(d.expiry, today) /\ DaysLeft(d.expiry, today) <= 7)

\* the number of calls of mail.send the invocation made
SendCalls == Cardinality({i \in 1..Len(last.calls) : last.calls[i] = "send"})

\* C15: sendreminder by an allowed caller calls mail.send exactly once when at
\* least one of the subscriptions it read for the caller has
\* 0 <= days_left <= 7, with a mail addressed to the email of the first such
\* subscription in iteration order and covering all such subscriptions, and
\* zero times when there is none, returning success; it never calls mail.send
\* more than once per invocation, also when the send fails, in which case a
\* failure envelope is returned.
C15_OneReminderMail ==
  (Invoked /\ last.cmd = "sendreminder" /\ Allowed) =>
    /\ SendCalls <= 1
    /\ Len(last.mails) = SendCalls
    /\ store = last.before
    /\ last.fault = "find" => (SendCalls = 0 /\ ~resp.success)
    /\ (last.fault # "find" /\ DueSoon # <<>>) =>
         /\ SendCalls = 1
         /\ last.mails = << [to |-> DueSoon[1].email, recs |-> DueSoon] >>
         /\ resp.success <=> last.fault # "send"
         /\ resp.success => resp.recs = DueSoon
    /\ (last.fault # "find" /\ DueSoon = <<>>) =>
         /\ SendCalls = 0
         /\ resp.success

\* the caller's first subscription expires in eight days, the second in
\* seven: the one mail went to the second's email, and the send failed
C15_Witness ==
  /\ Invoked /\ last.cmd = "sendreminder" /\ last.fault = "send"
  /\ Len(DocsOf(last.before, last.chat)) = 2
  /\ DaysLeft(DocsOf(last.before, last.chat)[1].expiry, today) = 8
  /\ DaysLeft(DocsOf(last.before, last.chat)[2].expiry, today) = 7
  /\ Len(last.mails) = 1
  /\ last.mails[1].to = DocsOf(last.before, last.chat)[2].email
  /\ ~resp.success

(***************************************************************************)
(* The search specification: two callers add subscriptions that carry the  *)
(* letters "net" in the service, in the username, in the email (in upper   *)
(* case) or nowhere, and search for keywords in either case.               *)
(***************************************************************************)
\* the size of the collection
MaxSearchSubs == 2

SearchIds == {"s1", "s2", "s3"}

SearchDocs ==
  { <<"john", "j@x.io", "Netflix", "2025-01-14">>,
    <<"Annette", "a@x.io", "Hulu", "2025-01-14">>,
    <<"bob", "b@NET.io", "Hulu", "2025-01-14">>,
    <<"bob", "b@x.io", "Hulu", "2025-01-14">> }

SearchKeywords ==
  { <<"net">>, <<"NET">>, <<"hulu">>, <<"x.io">>, <<"zz">>, <<"net", "hulu">> }

SAdd ==
  /\ last = NoInvocation
  /\ \E chat \in Chats, args \in SearchDocs :
       \E nid \in {i \in SearchIds : i \notin IdsOf(store)} :
         \E pos \in 0..Len(store) :
           Invoke(get_user_by_chat_id(chat), "add", args, NoFault, nid, pos, MaxSearchSubs)

SSearch ==
  /\ last = NoInvocation
  /\ \E chat \in Chats, args \in SearchKeywords,
          f \in {NoFault, [at |-> "find", len |-> ErrShort]} :
       Invoke(get_user_by_chat_id(chat), "search", args, f, "s1", 0, MaxSearchSubs)

NextSearch == SAdd \/ SSearch \/ Return

SpecSearch == InitQuota /\ [][NextSearch]_vars

\* some part of text is k up to the case of its letters
HasIgnoringCase(text, k) ==
  \E i \in 1..Len(text) : \E j \in i..Len(text) :
    Lower(SubSeq(text, i, j)) = Lower(k)

\* the caller's subscriptions, as the search found them, that carry the
\* keyword in the username, the email or the service
Hits ==
  SelectSeq(DocsOf(last.before, last.chat),
            LAMBDA d : \/ HasIgnoringCase(d.username, last.args[1])
                       \/ HasIgnoringCase(d.email, last.args[1])
                       \/ HasIgnoringCase(d.service, last.args[1]))

\* C16: search with keyword k returns in data.results exactly those
\* subscriptions of the caller whose username, email or service contains k
\* case-insensitively, no others and none missing, and returns success=true
\* whenever the storage read succeeds, with an empty results list when the
\* caller has no subscriptions or none matches.
C16_SearchReturnsExactlyHits ==
  (Invoked /\ last.cmd = "search" /\ last.args # <<>> /\ ~last.raised) =>
    /\ resp.success
    /\ resp.data = "results"
    /\ resp.recs = Hits
    /\ store = last.before

\* of the caller's two subscriptions the search found the one that carries
\* the keyword in upper case in its email, and not the other
C16_Witness ==
  /\ Invoked /\ last.cmd = "search" /\ last.args = <<"net">> /\ resp.success
  /\ Len(DocsOf(last.before, last.chat)) = 2
  /\ Len(resp.recs) = 1
  /\ resp.recs[1].email = "b@NET.io"

(***************************************************************************)
(* The validation specification: validate_command_args is a pure function  *)
(* of the registry.  A call starts with a command name and an argument     *)
(* list (last.cmd, last.args); Validate applies the function and leaves    *)
(* the pair it returns in resp (success, kind of the message).             *)
(***************************************************************************)
\* the longest argument list
MaxValidateArgs == 6

\* every registered name, two in other spellings, and unregistered ones
ValidateNames ==
  DOMAIN COMMANDS \cup {"LIST", "Add", "ping", "adds"}

InitValidate ==
  /\ store = <<>>
  /\ users = << Identity(1, "user", "basic", SmallQuota),
                Identity(2, "owner", "monthly_unlimited", Unlimited) >>
  /\ today = Day0
  /\ inflight = <<>>
  /\ resp = Idle
  /\ \E command_name \in ValidateNames, n \in 0..MaxValidateArgs :
       last = [NoInvocation EXCEPT !.cmd = command_name,
                                   !.args = [i \in 1..n |-> "x"]]

Validate ==
  /\ resp = Idle
  /\ resp' = Response(validate_command_args(last.cmd, last.args) = "Valid",
                      validate_command_args(last.cmd, last.args))
  /\ UNCHANGED <<store, users, today, inflight, last>>

NextValidate == Validate

SpecValidate == InitValidate /\ [][NextValidate]_vars

\* the numbers <<r, o>> of required and optional arguments the registry
\* declares for a name, <<>> for a name that is not registered
Declared(command_name) ==
  CASE command_name \in {"start", "list", "LIST", "sendreminder", "stats",
                         "forcedreminder"} -> <<0, 0>>
    [] command_name \in {"add", "Add"} -> <<4, 1>>
    [] command_name \in {"delete", "search"} -> <<1, 0>>
    [] command_name \in {"upgrade", "help"} -> <<0, 1>>
    [] command_name = "promote" -> <<2, 0>>
    [] OTHER -> <<>>

\* the verdict the claim gives for n arguments against r required and o optional
Verdict(n, r, o) ==
  IF n < r THEN "Missing required arguments"
  ELSE IF n > r + o /\ r + o > 0 THEN "Too many arguments"
  ELSE "Valid"

\* C17: validate_command_args(name, args) for a registered command with r
\* required and o optional arguments returns ok exactly when len(args) >= r
\* and (len(args) <= r+o or r+o = 0): fewer than r arguments give 'Missing
\* required arguments', more than r+o give 'Too many arguments' only if the
\* command declares at least one argument, a command that declares none
\* accepts any number of tokens; an unregistered name gives 'Unknown command'.
C17_ValidateCommandArgs ==
  resp # Idle =>
    LET n == Len(last.args)
        d == Declared(last.cmd)
    IN IF d = <<>>
       THEN ~resp.success /\ resp.kind = "Unknown command"
       ELSE /\ resp.success <=> (n >= d[1] /\ (n <= d[1] + d[2] \/ d[1] + d[2] = 0))
            /\ resp.kind = Verdict(n, d[1], d[2])

\* a command that declares no argument was given three tokens: valid
C17_Witness ==
  /\ resp # Idle /\ last.cmd = "list" /\ Len(last.args) = 3
  /\ resp.success /\ resp.kind = "Valid"

\* the roles the registry permits to use the command a name resolves to,
\* none for a name that resolves to no command
Holders(name) ==
  CASE Lower(name) \in {"start", "list", "add", "delete", "search", "upgrade", "help"} ->
         {"free", "user", "manager", "admin", "owner"}
    [] Lower(name) \in {"sendreminder", "stats"} -> {"user", "manager", "admin", "owner"}
    [] Lower(name) \in {"forcedreminder", "promote"} -> {"admin", "owner"}
    [] OTHER -> {}

\* process_command rejects the name, for the caller of the last invocation,
\* as unknown or as not permitted
Rejected(name) ==
  process_command(name, <<>>, get_user_by_chat_id(last.chat), store, today,
                  NoFault, "a", 0).resp.kind \in {"Unknown command", "Permission denied"}

\* C18: help with a command-name argument, invoked by role r, succeeds if and
\* only if the name resolves, case-insensitively, to a registered command
\* whose permissions contain r, that is exactly for the commands in
\* get_commands_for_role(r) and exactly for those that process_command would
\* not reject as unknown or permission-denied for r; otherwise it returns a
\* 'Command not found' failure.
C18_HelpForAvailableCommands ==
  (Invoked /\ last.cmd = "help" /\ last.args # <<>>) =>
    /\ resp.success <=> last.role \in Holders(last.args[1])
    /\ resp.success <=> Lower(last.args[1]) \in get_commands_for_role(last.role)
    /\ resp.success <=> ~Rejected(last.args[1])
    /\ resp.success => resp.data = "command_help"
    /\ ~resp.success => resp.kind = "Command not found"

\* a manager asked for help on promote, which is registered for admins and
\* owners only
C18_Witness ==
  /\ Invoked /\ last.cmd = "help" /\ last.args = <<"promote">> /\ last.role = "manager"
  /\ ~resp.success /\ resp.kind = "Command not found"

\* C19: every failure envelope produced from an internal fault (an exception
\* raised inside process_command or inside any handler, for instance by the
\* storage or the mail collaborator) carries at most 100 characters of the
\* fault's diagnostic text, for every command, list, add, search, help, stats,
\* sendreminder and upgrade included.
C19_DiagnosticAtMostHundred ==
  (Invoked /\ last.raised /\ ~resp.success) => resp.diag <= DiagLimit

(***************************************************************************)
(* The statistics specification: two callers add subscriptions with the    *)
(* amounts 100, 'bad' and 50 or with none, and ask for their statistics.   *)
(***************************************************************************)
\* the size of the collection
MaxStatsSubs == 3

StatsIds == {"t1", "t2", "t3"}

\* the tokens after the expiry
StatsAmounts == {<<"100">>, <<"bad">>, <<"50">>, <<>>}

StAdd ==
  /\ last = NoInvocation
  /\ \E chat \in Chats, amount \in StatsAmounts :
       \E nid \in {i \in StatsIds : i \notin IdsOf(store)} :
         \E pos \in 0..Len(store) :
           Invoke(get_user_by_chat_id(chat), "add",
                  <<"john", "j@x.io", "Netflix", "2025-01-14">> \o amount,
                  NoFault, nid, pos, MaxStatsSubs)

StStats ==
  /\ last = NoInvocation
  /\ \E chat \in Chats, f \in {NoFault, [at |-> "find", len |-> ErrShort]} :
       Invoke(get_user_by_chat_id(chat), "stats", <<>>, f, "t1", 0, MaxStatsSubs)

NextStats == StAdd \/ StStats \/ Return

SpecStats == InitQuota /\ [][NextStats]_vars

\* the number an amount in use stands for, 0 for one that is no number
AmountValue(amount) ==
  CASE amount = "100" -> 100
    [] amount = "50" -> 50
    [] OTHER -> 0

RECURSIVE SumOfAmounts(_)
\* the sum of the amounts of docs that are numbers
SumOfAmounts(docs) ==
  IF docs = <<>> THEN 0
  ELSE AmountValue(Head(docs).amount) + SumOfAmounts(Tail(docs))

\* C20: stats reports total_amount as the sum of the numerically parseable
\* amount_received values of the caller's subscriptions, leaving non-numeric
\* amounts out of the sum while still counting those subscriptions in
\* total_subscriptions, and does not fail because of a non-numeric amount.
C20_StatsSkipsBadAmounts ==
  (Invoked /\ last.cmd = "stats" /\ Allowed /\ ~last.raised) =>
    /\ resp.success
    /\ resp.data = "stats"
    /\ resp.nums[1] = Len(DocsOf(last.before, last.chat))
    /\ resp.nums[5] = SumOfAmounts(DocsOf(last.before, last.chat))

\* the caller holds three subscriptions with the amounts 100, 'bad' and 50:
\* total_amount is 150 and total_subscriptions is 3
C20_Witness ==
  /\ Invoked /\ last.cmd = "stats" /\ resp.success
  /\ Len(DocsOf(last.before, last.chat)) = 3
  /\ {d.amount : d \in Range(DocsOf(last.before, last.chat))} = {"100", "bad", "50"}
  /\ resp.nums[1] = 3
  /\ resp.nums[5] = 150

(***************************************************************************)
(* Properties of upgrade.                                                  *)
(***************************************************************************)
\* the subscriptions a plan of the plan table allows, <<>> for no plan
QuotaOfPlan(key) ==
  CASE key = "free" -> <<5>>
    [] key = "basic" -> <<15>>
    [] key = "premium" -> <<30>>
    [] key = "enterprise" -> <<100>>
    [] key \in {"monthly_unlimited", "yearly_unlimited"} -> <<999999>>
    [] OTHER -> <<>>

\* C21: upgrade with a plan-key argument fails with the invalid-plan envelope
\* if and only if the lowercased key is not a key of the plan table; for a
\* known key it returns that plan's detail and reports it as the caller's
\* current plan exactly when the lowercased key equals identity.plan_type.
C21_UpgradeShowsPlan ==
  (Invoked /\ last.cmd = "upgrade" /\ last.args # <<>>) =>
    LET key == Lower(last.args[1])
    IN /\ (~resp.success /\ resp.kind = "Invalid plan") <=> QuotaOfPlan(key) = <<>>
       /\ ~resp.success <=> QuotaOfPlan(key) = <<>>
       /\ resp.success =>
            /\ resp.data = "plan_info"
            /\ resp.names = {key}
            /\ resp.nums = QuotaOfPlan(key)
            /\ (resp.status = <<"This is your current plan">>)
                 <=> key = get_user_by_chat_id(last.chat).plan_type
       /\ store = last.before

\* a caller on the free plan asked about FREE and was told it is the current
\* plan
C21_Witness ==
  /\ Invoked /\ last.cmd = "upgrade" /\ last.args = <<"FREE">>
  /\ get_user_by_chat_id(last.chat).plan_type = "free"
  /\ resp.success /\ resp.status = <<"This is your current plan">>

(***************************************************************************)
(* The entry point (main.py unified_command_api): a request carries a chat *)
(* id and a message; the identity of the chat is found or created, the     *)
(* message is parsed, and a command is handed to process_command.  The     *)
(* request being served is in inflight until its response is returned.     *)
(* The specification starts with no identity record and serves one request *)
(* at a time.                                                              *)
(***************************************************************************)
\* the size of the subscription collection
MaxApiSubs == 2

\* len('list index out of range'), the text of the IndexError of parts[0]
IndexErrorLen == 23

ApiIds == {"a", "ab"}

ApiMessages ==
  { "/list", "/LIST", "/add john j@x.io Netflix 2025-01-14", "/delete a",
    "/help  add", "/sendreminder", "/ping", "/", "", "list", "hello /list",
    " /list" }

\* the collaborator call of the entry point that raises: the first query of
\* the users collection, the creation of the record, the second query
ApiFaults == {"none", "get", "create", "reget"}

RECURSIVE SplitFrom(_, _, _)
\* the words of s from position i on, word being the one under way
SplitFrom(s, i, word) ==
  IF i > Len(s) THEN (IF word = "" THEN <<>> ELSE <<word>>)
  ELSE IF CharAt(s, i) = " "
       THEN (IF word = "" THEN <<>> ELSE <<word>>) \o SplitFrom(s, i + 1, "")
       ELSE SplitFrom(s, i + 1, word \o CharAt(s, i))

\* s.split()
split(s) == SplitFrom(s, 1, "")

\* variant: a message without the leading '/' is taken as a command too
parse_telegram_command_lenient(message_text) ==
  LET parts == split(IF StartsWith(message_text, "/")
                     THEN SubSeq(message_text, 2, Len(message_text))
                     ELSE message_text)
  IN IF parts = <<>>
     THEN [ok |-> FALSE, raised |-> TRUE, command |-> "", args |-> <<>>]
     ELSE [ok |-> TRUE, raised |-> FALSE, command |-> Lower(parts[1]),
           args |-> Tail(parts)]

\* parse_telegram_command: ok = FALSE when it returns (None, []) or raises
\* (parts[0] of an empty list)
parse_telegram_command(message_text) ==
  IF ~StartsWith(message_text, "/")
  THEN [ok |-> FALSE, raised |-> FALSE, command |-> "", args |-> <<>>]
  ELSE LET parts == split(SubSeq(message_text, 2, Len(message_text)))
       IN IF parts = <<>>
          THEN [ok |-> FALSE, raised |-> TRUE, command |-> "", args |-> <<>>]
          ELSE [ok |-> TRUE, raised |-> FALSE, command |-> Lower(parts[1]),
                args |-> Tail(parts)]

\* variant: a record is created on every request
get_or_create_user_always(us, chat_id) ==
  Append(us, Identity(chat_id, "free", "free", SUBSCRIPTION_PLANS["free"].max_subscriptions))

\* get_or_create_user: the users collection after the call
get_or_create_user(us, chat_id) ==
  IF \E i \in 1..Len(us) : us[i].chat = chat_id
  THEN us
  ELSE Append(us, Identity(chat_id, "free", "free",
                           SUBSCRIPTION_PLANS["free"].max_subscriptions))

\* users[0] of the query for chat_id in the collection us
user_data_of(us, chat_id) ==
  us[CHOOSE i \in 1..Len(us) :
       /\ us[i].chat = chat_id
       /\ \A j \in 1..(i - 1) : us[j].chat # chat_id]

\* the entry point returned without calling process_command
Halted(us, db, r) ==
  [users |-> us, dispatched |-> FALSE, command |-> "", args |-> <<>>, role |-> "none",
   out |-> Outcome(r, db, <<>>, <<>>, FALSE)]

\* the entry point returned what process_command returned
Dispatched(us, command, args, role, out) ==
  [users |-> us, dispatched |-> TRUE, command |-> command, args |-> args, role |-> role,
   out |-> out]

\* unified_command_api from the parse on, p being the parsed message
api_dispatch(p, chat_id, us, db, day, nid, pos) ==
  IF p.raised
  THEN Halted(us, db, [Response(FALSE, "Internal Error") EXCEPT
                         !.diag = Min(IndexErrorLen, DiagLimit)])
  ELSE IF ~p.ok
  THEN Halted(us, db, Response(FALSE, "Invalid command format"))
  ELSE Dispatched(us, p.command, p.args, user_data_of(us, chat_id).role,
                  process_command(p.command, p.args, user_data_of(us, chat_id),
                                  db, day, NoFault, nid, pos))

unified_command_api(chat_id, message_text, us, db, day, g, nid, pos) ==
  IF g = "get" \/ (g = "create" /\ get_or_create_user(us, chat_id) # us)
  THEN Halted(us, db, Response(FALSE, "Error creating/finding user account"))
  ELSE IF g = "reget"
  THEN Halted(get_or_create_user(us, chat_id), db, Response(FALSE, "User data not found"))
  ELSE api_dispatch(parse_telegram_command(message_text), chat_id,
                    get_or_create_user(us, chat_id), db, day, nid, pos)

\* the request was served with the result api
Served(chat_id, message_text, g, api) ==
  /\ Len(api.out.store) <= MaxApiSubs
  /\ users' = api.users
  /\ store' = api.out.store
  /\ resp' = api.out.resp
  /\ last' = IF api.dispatched
             THEN [chat |-> chat_id, role |-> api.role, cmd |-> api.command,
                   args |-> api.args, fault |-> "none", calls |-> api.out.calls,
                   mails |-> api.out.mails, raised |-> api.out.raised,
                   before |-> store, count |-> Len(Where(store, chat_id))]
             ELSE NoInvocation
  /\ inflight' = << [chat |-> chat_id, message |-> message_text, fault |-> g,
                     before |-> store, known |-> users] >>
  /\ UNCHANGED today

Request ==
  /\ inflight = <<>>
  /\ \E chat_id \in Chats, message_text \in ApiMessages, g \in ApiFaults :
       \E nid \in {i \in ApiIds : i \notin IdsOf(store)} :
         \E pos \in 0..Len(store) :
           Served(chat_id, message_text, g,
                  unified_command_api(chat_id, message_text, users, store, today,
                                      g, nid, pos))

\* return jsonify(...): the request is over
Respond ==
  /\ inflight # <<>>
  /\ inflight' = <<>>
  /\ last' = NoInvocation
  /\ resp' = Idle
  /\ UNCHANGED <<store, users, today>>

InitApi ==
  /\ store = <<>>
  /\ users = <<>>
  /\ today = Day0
  /\ inflight = <<>>
  /\ last = NoInvocation
  /\ resp = Idle

NextApi == Request \/ Respond

SpecApi == InitApi /\ [][NextApi]_vars

(***************************************************************************)
(* Properties of the entry point.                                          *)
(***************************************************************************)
\* the identity records of a chat id in the users collection us
RecordsOf(us, chat_id) == SelectSeq(us, LAMBDA u : u.chat = chat_id)

\* this step serves a request
Serves == inflight = <<>> /\ inflight' # <<>>

\* a request whose identity calls did not raise leaves exactly one record of
\* its chat id: the one there was, or a new one of the free plan
Provisioned ==
  (Serves /\ inflight'[1].fault = "none") =>
    LET chat_id == inflight'[1].chat
    IN /\ RecordsOf(users, chat_id) = <<>> =>
            users' = Append(users, [chat |-> chat_id, role |-> "free",
                                    plan_type |-> "free", max_subscriptions |-> 5])
       /\ RecordsOf(users, chat_id) # <<>> => users' = users
       /\ last' # NoInvocation =>
            /\ last'.chat = chat_id
            /\ last'.role = RecordsOf(users', chat_id)[1].role

\* C22: the first request from a chat id with no identity record creates
\* exactly one identity with role 'free', plan_type 'free' and
\* max_subscriptions 5, the free plan's quota; every later request from the
\* same chat id, handled one at a time, resolves to that same record and
\* creates no further one, so at most one identity exists per chat id, and no
\* step removes or changes a record.
C22_OneIdentityPerChat ==
  [][/\ Provisioned
     /\ \A chat_id \in Chats : Len(RecordsOf(users', chat_id)) <= 1
     /\ \A i \in 1..Len(users) : i <= Len(users') /\ users'[i] = users[i]]_vars

\* a later request from a chat id that has a record was served with that
\* record, and the collection holds the same two records as before
C22_Witness ==
  /\ inflight # <<>> /\ inflight[1].fault = "none"
  /\ RecordsOf(inflight[1].known, inflight[1].chat) # <<>>
  /\ Len(users) = 2 /\ users = inflight[1].known
  /\ last # NoInvocation /\ last.role = "free"

\* the message of the request being served begins with '/'
BeginsWithSlash == Len(inflight[1].message) > 0 /\ SubSeq(inflight[1].message, 1, 1) = "/"

\* C23: a request whose message does not begin with '/' is not a command: the
\* entry point returns a failure response without invoking process_command,
\* and the subscription store is unchanged.
C23_NoSlashNoCommand ==
  (inflight # <<>> /\ ~BeginsWithSlash) =>
    /\ ~resp.success
    /\ last = NoInvocation
    /\ store = inflight[1].before
    /\ inflight[1].fault = "none" => resp.kind = "Invalid command format"

\* the message 'list', sent while the store holds a subscription, was
\* answered with the invalid-format failure
C23_Witness ==
  /\ inflight # <<>> /\ inflight[1].message = "list" /\ inflight[1].fault = "none"
  /\ store # <<>>
  /\ ~resp.success /\ resp.kind = "Invalid command format"
  /\ last = NoInvocation

\* the status search shows for days_left
SearchedStatus(days_left) ==
  IF days_left < 0 THEN "EXPIRED"
  ELSE IF days_left <= 7 THEN "EXPIRING SOON"
  ELSE "ACTIVE"

\* what list and what a search that matches every subscription (all are
\* Netflix subscriptions) return to the caller of the last invocation, for the
\* store and the day of that invocation
ListNow ==
  handle_list(<<>>, get_user_by_chat_id(last.chat), last.before, today, NoFault).resp

SearchNow ==
  handle_search(<<"net">>, get_user_by_chat_id(last.chat), last.before, today, NoFault).resp

\* the last invocation was a list, or a search for "net", that found something
ListedOrSearched ==
  /\ Invoked /\ ~last.raised /\ resp.recs # <<>>
  /\ \/ last.cmd = "list"
     \/ last.cmd = "search" /\ last.args = <<"net">>

\* C24: search classifies each match with a 7-day threshold (EXPIRED when
\* days_left < 0, EXPIRING SOON when 0 <= days_left <= 7, ACTIVE otherwise)
\* while list uses 3 days, so for the same store and day a subscription with
\* 4 <= days_left <= 7 is ACTIVE in list and EXPIRING SOON in search, and for
\* every other days_left value the two commands report the same status.
C24_SearchSevenListThree ==
  ListedOrSearched =>
    /\ resp = (IF last.cmd = "list" THEN ListNow ELSE SearchNow)
    /\ ListNow.recs = SearchNow.recs
    /\ \A i \in 1..Len(SearchNow.recs) :
         LET days_left == DaysLeft(SearchNow.recs[i].expiry, today)
         IN /\ SearchNow.status[i] = SearchedStatus(days_left)
            /\ (4 <= days_left /\ days_left <= 7) =>
                 (ListNow.status[i] = "ACTIVE" /\ SearchNow.status[i] = "EXPIRING SOON")
            /\ ~(4 <= days_left /\ days_left <= 7) =>
                 ListNow.status[i] = SearchNow.status[i]

\* a search found a subscription that expires in four days and one that
\* expires in eight: EXPIRING SOON and ACTIVE, where list says ACTIVE twice
C24_Witness ==
  /\ Invoked /\ last.cmd = "search" /\ resp.success /\ Len(resp.recs) = 2
  /\ \E i, j \in 1..2 :
       /\ DaysLeft(resp.recs[i].expiry, today) = 4
       /\ resp.status[i] = "EXPIRING SOON"
       /\ DaysLeft(resp.recs[j].expiry, today) = 8
       /\ resp.status[j] = "ACTIVE"
  /\ ListNow.status = <<"ACTIVE", "ACTIVE">>

\* what process_command returns for the lowercase spelling of the name of the
\* last invocation, with the same arguments, caller, store and day
LowercaseOutcome ==
  process_command(Lower(last.cmd), last.args, get_user_by_chat_id(last.chat),
                  last.before, today, NoFault, "a", 0)

\* C25: command dispatch is case-insensitive like registry lookup: for every
\* registered command and every upper/lower-case variant of its name (such as
\* 'LIST', 'List'), process_command returns the same envelope and has the same
\* effect on the store as with the lowercase name.
C25_DispatchIgnoresCase ==
  (Invoked /\ last.cmd \in VariantNames /\ last.fault = "none") =>
    /\ resp = LowercaseOutcome.resp
    /\ store = LowercaseOutcome.store

\* the id the store gave the document of the last invocation, if it stored one
IdGiven == IF last.cmd = "add" /\ resp.success THEN resp.recs[1].id ELSE "a"

\* what process_command returns to the caller of the last invocation, for the
\* same command, arguments and day, when the store holds the caller's
\* subscriptions only
Alone ==
  process_command(last.cmd, last.args, get_user_by_chat_id(last.chat),
                  DocsOf(last.before, last.chat), today, NoFault, IdGiven, 0)

\* C26: per-user isolation: a command invoked by caller A never returns,
\* counts, mails or deletes a subscription whose telegram_chat_id belongs to
\* another caller B: A's add outcome and A's list, search, stats,
\* sendreminder and delete results are the same whatever subscriptions B
\* owns, and B's subscriptions are in the store after the invocation as they
\* were before, also when the prefix given to delete matches B's id.
C26_PerUserIsolation ==
  (Invoked /\ last.fault = "none") =>
    /\ resp = Alone.resp
    /\ last.mails = Alone.mails
    /\ Range(DocsOf(store, last.chat)) = Range(Alone.store)
    /\ \A i \in 1..Len(resp.recs) : resp.recs[i].chat = last.chat
    /\ \A chat \in Chats \ {last.chat} :
         DocsOf(store, chat) = DocsOf(last.before, chat)

\* the caller's delete of "a" took the caller's subscription "ab" and left
\* the subscription "a" of the other caller in the store
C26_Witness ==
  /\ Invoked /\ last.cmd = "delete" /\ last.args = <<"a">> /\ resp.success
  /\ resp.recs[1].id = "ab" /\ resp.recs[1].chat = last.chat
  /\ \E i \in 1..Len(store) : store[i].id = "a" /\ store[i].chat # last.chat

\* process_command rejected the last invocation as unknown or not permitted
RejectedEarly ==
  Invoked /\ ~resp.success /\ resp.kind \in {"Unknown command", "Permission denied"}

\* C27: an invocation that process_command rejects as unknown command or
\* permission denied performs no storage read or write and sends no mail; in
\* particular a caller with role 'free' never causes a reminder email to be
\* sent through sendreminder.
C27_RejectedTouchesNothing ==
  /\ RejectedEarly =>
       (last.calls = <<>> /\ last.mails = <<>> /\ store = last.before)
  /\ (Invoked /\ last.role = "free" /\ Lower(last.cmd) = "sendreminder") =>
       (RejectedEarly /\ last.mails = <<>>)

\* a free caller who holds a subscription that expires within seven days
\* asked for a reminder and was denied, with no query and no mail
C27_Witness ==
  /\ Invoked /\ last.role = "free" /\ last.cmd = "sendreminder"
  /\ \E i \in 1..Len(last.before) :
       /\ last.before[i].chat = last.chat
       /\ ParseDate(last.before[i].expiry).ord - today \in 0..7
  /\ resp.kind = "Permission denied"
  /\ last.calls = <<>> /\ last.mails = <<>>

\* the last invocation was an add or a delete
Wrote == Invoked /\ last.cmd \in Writers

\* C28: whenever add or delete returns a failure envelope (success=false), the
\* subscription store is exactly as it was before the invocation, and
\* whenever they return success=true the store differs by exactly one record
\* (one more for add, one fewer for delete), also when the storage
\* collaborator fails at any one of its calls.
C28_WriteOneOrNothing ==
  Wrote =>
    /\ ~resp.success => store = last.before
    /\ (resp.success /\ last.cmd = "add") =>
         /\ Len(store) = Len(last.before) + 1
         /\ resp.recs[1] \in Range(store)
         /\ resp.recs[1] \notin Range(last.before)
         /\ Removed(store, resp.recs[1].id) = last.before
    /\ (resp.success /\ last.cmd = "delete") =>
         /\ Len(store) = Len(last.before) - 1
         /\ resp.recs[1] \in Range(last.before)
         /\ store = Removed(last.before, resp.recs[1].id)
    /\ last.raised => ~resp.success

\* the delete call of the store raised after the subscription was found: a
\* failure, and the store of three subscriptions is as it was
C28_Witness ==
  /\ Wrote /\ last.cmd = "delete" /\ last.fault = "delete" /\ last.raised
  /\ ~resp.success
  /\ Len(store) = 3 /\ store = last.before

\* the argument of the last delete is the full id of one of the caller's
\* subscriptions
ExactIdGiven ==
  /\ Invoked /\ last.cmd = "delete" /\ last.fault = "none" /\ last.args # <<>>
  /\ \E i \in 1..Len(Mine) : Mine[i].id = last.args[1]

StatsNow ==
  handle_stats(<<>>, get_user_by_chat_id(last.chat), last.before, today, NoFault).resp

RemindNow ==
  handle_sendreminder(<<>>, get_user_by_chat_id(last.chat), last.before, today, NoFault)

\* the number of subscriptions sendreminder selects for its mail
Selected == IF RemindNow.mails = <<>> THEN 0 ELSE Len(RemindNow.mails[1].recs)

\* the last invocation was a stats or a sendreminder that ran undisturbed
CountedOrReminded ==
  Invoked /\ last.cmd \in {"stats", "sendreminder"} /\ Allowed /\ last.fault = "none"

\* C30: for the same caller, store and day, the expiring_subscriptions count
\* reported by stats equals the number of subscriptions that sendreminder
\* selects for its email (those with 0 <= days_left <= 7), and stats' active,
\* expiring and expired counts sum to total_subscriptions, for every store
\* whose records were all created through add.
C30_StatsAgreesWithReminder ==
  CountedOrReminded =>
    /\ last.cmd = "stats" => resp = StatsNow
    /\ last.cmd = "sendreminder" => (resp = RemindNow.resp /\ last.mails = RemindNow.mails)
    /\ StatsNow.nums[3] = Selected
    /\ Selected = Cardinality({i \in 1..Len(DocsOf(last.before, last.chat)) :
                     DaysLeft(DocsOf(last.before, last.chat)[i].expiry, today) \in 0..7})
    /\ StatsNow.nums[1] = Len(DocsOf(last.before, last.chat))
    /\ StatsNow.nums[2] + StatsNow.nums[3] + StatsNow.nums[4] = StatsNow.nums[1]

\* stats counted one expired subscription and one that expires in seven days,
\* which is the one sendreminder selects
C30_Witness ==
  /\ CountedOrReminded /\ last.cmd = "stats" /\ resp.success
  /\ resp.nums[1] = 2 /\ resp.nums[3] = 1 /\ resp.nums[4] = 1
  /\ Selected = 1
  /\ DaysLeft(RemindNow.mails[1].recs[1].expiry, today) = 7

====
